---- MODULE Spec2Model ----
(***************************************************************************)
(* mpak-scanner: the control execution engine (scanner.py), the            *)
(* aggregation algorithms of the report (models.py) and the vulnerability  *)
(* severity sub-algorithm of SC-02 (sc02_vuln_scan.py).                    *)
(*                                                                         *)
(* These specifications share this module:                                 *)
(*   Spec          scan_bundle, one step per statement group / loop turn   *)
(*   SpecLevel     calculate_compliance_level over drawn result sets       *)
(*   SpecRisk      SecurityReport.risk_score over a report's findings      *)
(*   SpecSeverity  SC02VulnerabilityScan._calculate_severity               *)
(*   SpecEnrich    SC02VulnerabilityScan.run, the KEV and EPSS feeds       *)
(*   SpecContent   scan_bundle over archives with content                  *)
(*   SpecSerial    SecurityReport.to_dict, json.dumps, json.loads          *)
(*   SpecCli       the scan command of the command line (cli.py)           *)
(*   SpecLoad      MpakClient.load_bundle_from_url (client.py)             *)
(*   SpecLoader    the mpak-loader entry point main() (loader.py)          *)
(*   SpecRace      two threads in fetch_kev_catalog()                      *)
(*   SpecControls  a control with an external tool, run by the engine      *)
(*   SpecProcess   scans in one process and in a fresh process             *)
(*   SpecVuln      SC02VulnerabilityScan.run from the call of Grype        *)
(*   SpecCatalogue scan_bundle, archives with content, any selection       *)
(*   SpecJob       run_job, the scanner as a Kubernetes Job (job.py)       *)
(* Each specification moves its own variables and leaves the others idle.  *)
(***************************************************************************)
EXTENDS Integers, Sequences, FiniteSets, TLC

VARIABLES
    pc,                \* where the running call stands
    \* ---- Spec: scan_bundle(bundle_path, work_dir, controls)
    bundle,            \* the archive file at bundle_path
    work_dir,          \* the work_dir argument: None or a caller's directory
    controls,          \* the controls argument: None or a list of control ids
    cleanup,           \* scan_bundle's local flag
    tmp_dir_exists,    \* the directory made by tempfile.mkdtemp exists
    caller_dir_exists, \* the directory the caller passed as work_dir exists
    files,             \* the files that extraction wrote and that still exist
    manifest,          \* the parsed manifest handed to the controls
    report,            \* the SecurityReport under construction
    controls_to_run,   \* the resolved controls, in dict order
    next_i,            \* position of the for loop in controls_to_run
    invoked,           \* history: what each call of control.run() did
    exc,               \* the exception that left scan_bundle, if any
    \* ---- SpecLevel: calculate_compliance_level(control_results)
    control_results,   \* control id -> status, or "absent" when the dict has no entry
    level,             \* the returned ComplianceLevel value (0 before the call returns)
    \* ---- SpecRisk: SecurityReport.risk_score
    findings,          \* SecurityReport.all_findings, in domain/control iteration order
    \* ---- SpecSeverity: SC02VulnerabilityScan._calculate_severity
    sev_in,            \* the call's arguments
    sev_out,           \* the returned (severity, is_blocking)
    \* ---- SpecEnrich: SC02VulnerabilityScan.run from the Grype matches on
    kev_cache,         \* the module global _kev_cache
    matches,           \* data["matches"]: the vulnerabilities Grype reported
    kev_catalog,       \* run's local kev_catalog
    epss_scores,       \* fetch_epss_scores' local scores: CVE id -> probability
    batch_i,           \* number of the EPSS batch to fetch next
    fetch_log,         \* history: what each fetch from a feed did
    sc02_result,       \* the ControlResult that run returned
    \* ---- SpecSerial: SecurityReport.to_dict, json.dumps, json.loads
    sreport,           \* the SecurityReport
    wire,              \* the JSON text of to_dict()
    parsed,            \* the value parsed back from the text
    \* ---- SpecCli: the scan command of the command line
    output_json,       \* the --json flag
    output,            \* the --output option: None or a path
    opt_level,         \* the --level option as given on the command line
    cli_level,         \* scan's variable level
    cli_report,        \* the report that scan_bundle returned
    report_file,       \* where the JSON report went
    exit_code,         \* the status the process exited with
    \* ---- SpecLoad: MpakClient.load_bundle_from_url(url, dest, expected_sha256)
    response,          \* what the GET of url brings
    expected_sha256,   \* the expected_sha256 argument: None or a string
    bundle_file,       \* dest/bundle.mcpb exists
    dest_files,        \* the files extracted, inside or outside dest
    load_exc,          \* the exception that left the call, if any
    load_manifest,     \* the manifest the call returned
    \* ---- SpecLoader: the mpak-loader entry point main()
    argv,              \* sys.argv
    client,            \* main's local client: unbound, or the MpakClient
    close_calls,       \* how many times client.close() was called
    load_call,         \* the load method main called, with its arguments
    load_outcome,      \* what that call did: returned, or the exception
    raising,           \* the exception on its way out of main
    \* ---- SpecRace: two threads in fetch_kev_catalog() (with kev_cache)
    tpc,               \* where each thread stands
    fetched,           \* each thread's set built from the feed, or set()
    returned,          \* what fetch_kev_catalog returned to each thread
    \* ---- SpecControls: one control with an external tool, run by the engine
    ctl,               \* the control's id
    tool,              \* what the subprocess of the tool does
    feeds,             \* the KEV and EPSS feeds answer ("up") or not ("down")
    elapsed,           \* milliseconds that run() takes
    run_out,           \* what run() did: the result returned or the exception
    in_report,         \* the ControlResult the engine put into the report
    \* ---- SpecProcess: two processes, each with earlier scans, then one scan
    proc,              \* each process's module globals and registry
    earlier,           \* how many scans each process has run before
    the_scan,          \* the last scan: what Grype reports, what the network answers
    last_report,       \* what the last scan found in each process
    \* ---- SpecJob: run_job(), the scanner as a Kubernetes Job
    job_env,           \* os.environ: the required names that are set, SCAN_ID
    job_done,          \* the steps of the try block that have completed
    job_report,        \* the risk score of the report scan_bundle returned
    callbacks,         \* the POSTs that reached CALLBACK_URL, in order
    job_exc,           \* the exception the except clause caught
    job_exit           \* the exit status of the process

levelVars == <<control_results, level>>
riskVars == <<findings>>
sevVars == <<sev_in, sev_out>>
scanVars == <<bundle, work_dir, controls, cleanup, tmp_dir_exists, caller_dir_exists, files,
              manifest,
              report, controls_to_run, next_i, invoked, exc>>
enrichVars == <<kev_cache, matches, kev_catalog, epss_scores, batch_i, fetch_log, sc02_result>>
serialVars == <<sreport, wire, parsed>>
cliVars == <<output_json, output, opt_level, cli_level, cli_report, report_file, exit_code>>
loadVars == <<response, expected_sha256, bundle_file, dest_files, load_exc, load_manifest>>
loaderVars == <<argv, client, close_calls, load_call, load_outcome, raising>>
raceVars == <<tpc, fetched, returned>>
controlVars == <<ctl, tool, feeds, elapsed, run_out, in_report>>
processVars == <<proc, earlier, the_scan, last_report>>
jobVars == <<job_env, job_done, job_report, callbacks, job_exc, job_exit>>
laterVars == <<loaderVars, raceVars, controlVars, processVars, jobVars>>
extVars == <<cliVars, loadVars, laterVars>>
oldVars == <<scanVars, levelVars, riskVars, sevVars, enrichVars, serialVars, cliVars, loadVars>>
auxVars == <<enrichVars, serialVars, extVars>>
baseVars == <<scanVars, levelVars, riskVars, sevVars, extVars>>
vars == <<pc, scanVars, levelVars, riskVars, sevVars, auxVars>>

\* Python's None for an optional number: the number x is <<x>>
None == <<>>
Some(x) == <<x>>
Val(o) == o[1]

(***************************************************************************)
(* models.py: enumerations                                                 *)
(***************************************************************************)
Severity == {"critical", "high", "medium", "low", "info"}
RiskScore == {"CRITICAL", "HIGH", "MEDIUM", "LOW", "NONE"}
ControlStatus == {"pass", "fail", "skip", "error"}
ComplianceLevel == 0..4

(***************************************************************************)
(* models.py: CONTROL_LEVELS.  Each row is the control id followed by the  *)
(* set of levels at which the control is required (the True entries); the  *)
(* rows are in the dict's iteration order.                                 *)
(***************************************************************************)
CONTROL_LEVELS ==
    << <<"AI-01", {1, 2, 3, 4}>>, <<"AI-02", {}>>,
       <<"AI-03", {3, 4}>>,       <<"AI-04", {4}>>,
       <<"AI-05", {2, 3, 4}>>,
       <<"SC-01", {1, 2, 3, 4}>>, <<"SC-02", {2, 3, 4}>>,
       <<"SC-03", {2, 3, 4}>>,    <<"SC-04", {2, 3, 4}>>,
       <<"SC-05", {3, 4}>>,
       <<"CQ-01", {1, 2, 3, 4}>>, <<"CQ-02", {1, 2, 3, 4}>>,
       <<"CQ-03", {2, 3, 4}>>,    <<"CQ-04", {3, 4}>>,
       <<"CQ-05", {3, 4}>>,       <<"CQ-06", {4}>>,
       <<"CD-01", {1, 2, 3, 4}>>, <<"CD-02", {2, 3, 4}>>,
       <<"CD-03", {2, 3, 4}>>,    <<"CD-04", {3, 4}>>,
       <<"CD-05", {3, 4}>>,
       <<"PR-01", {2, 3, 4}>>,    <<"PR-02", {2, 3, 4}>>,
       <<"PR-03", {3, 4}>>,       <<"PR-04", {4}>>,
       <<"PR-05", {3, 4}>> >>

ControlIds == {CONTROL_LEVELS[i][1] : i \in 1..Len(CONTROL_LEVELS)}

\* ControlResult.passed
passed_status_skip_ok(status) == status \in {"pass", "skip"}
passed(status) == status = "pass"

(***************************************************************************)
(* calculate_compliance_level: the inner for loop over CONTROL_LEVELS      *)
(* items, from row i on, with its break; the value is level_passed.        *)
(***************************************************************************)
RECURSIVE level_passed_missing_ok(_, _, _)
level_passed_missing_ok(results, lvl, i) ==
    IF i > Len(CONTROL_LEVELS) THEN TRUE
    ELSE IF lvl \in CONTROL_LEVELS[i][2]
              /\ results[CONTROL_LEVELS[i][1]] # "absent"
              /\ ~passed(results[CONTROL_LEVELS[i][1]])
         THEN FALSE
         ELSE level_passed_missing_ok(results, lvl, i + 1)

RECURSIVE level_passed(_, _, _)
level_passed(results, lvl, i) ==
    IF i > Len(CONTROL_LEVELS) THEN TRUE
    ELSE IF lvl \in CONTROL_LEVELS[i][2]
              /\ (results[CONTROL_LEVELS[i][1]] = "absent"
                  \/ ~passed(results[CONTROL_LEVELS[i][1]]))
         THEN FALSE
         ELSE level_passed(results, lvl, i + 1)

\* calculate_compliance_level: the outer loop over [4, 3, 2, 1], from
\* position k of that list on, returning at the first level that passed.
LEVEL_ORDER == <<4, 3, 2, 1>>

RECURSIVE compliance_from(_, _)
compliance_from(results, k) ==
    IF k > Len(LEVEL_ORDER) THEN 0
    ELSE IF level_passed(results, LEVEL_ORDER[k], 1) THEN LEVEL_ORDER[k]
         ELSE compliance_from(results, k + 1)

calculate_compliance_level(results) == compliance_from(results, 1)

(***************************************************************************)
(* SpecLevel: the inputs of calculate_compliance_level.  A result set is   *)
(* drawn group-wise (a control's group is the lowest level that requires   *)
(* it, 0 for a control no level requires): every group is either all PASS  *)
(* or all at one other value; then at most MaxEdits single controls are    *)
(* set to any status or dropped from the dict.                             *)
(***************************************************************************)
MaxEdits == 1

StatusOrAbsent == ControlStatus \cup {"absent"}

RequiredAt(lvl) ==
    {CONTROL_LEVELS[i][1] : i \in {j \in 1..Len(CONTROL_LEVELS) : lvl \in CONTROL_LEVELS[j][2]}}

MinLevel(c) ==
    IF c \in RequiredAt(1) THEN 1
    ELSE IF c \in RequiredAt(2) THEN 2
    ELSE IF c \in RequiredAt(3) THEN 3
    ELSE IF c \in RequiredAt(4) THEN 4
    ELSE 0

GroupResults ==
    {[c \in ControlIds |-> IF g[MinLevel(c)] THEN "pass" ELSE rest] :
        g \in [0..4 -> BOOLEAN], rest \in {"absent", "skip"}}

RECURSIVE SubsetsUpTo(_, _)
SubsetsUpTo(S, k) ==
    IF k = 0 THEN {{}}
    ELSE LET P == SubsetsUpTo(S, k - 1) IN P \cup {T \cup {x} : T \in P, x \in S}

EditSets == SubsetsUpTo(ControlIds, MaxEdits)

\* base with the controls of S set as e says
Edited(base, S, e) == [c \in ControlIds |-> IF c \in S THEN e[c] ELSE base[c]]

\* The value of a variable that the running specification does not use.
Idle == <<>>

\* Every variable of scan_bundle, unused by the other specifications.
ScanIdle ==
    /\ bundle = Idle /\ work_dir = Idle /\ controls = Idle /\ cleanup = FALSE
    /\ tmp_dir_exists = FALSE /\ caller_dir_exists = FALSE
    /\ files = {} /\ manifest = Idle /\ report = Idle
    /\ controls_to_run = <<>> /\ next_i = 0 /\ invoked = <<>> /\ exc = Idle

EnrichIdle ==
    /\ kev_cache = Idle /\ matches = Idle /\ kev_catalog = Idle /\ epss_scores = Idle
    /\ batch_i = 0 /\ fetch_log = <<>> /\ sc02_result = Idle

SerialIdle == sreport = Idle /\ wire = Idle /\ parsed = Idle

CliIdle ==
    /\ output_json = FALSE /\ output = Idle /\ opt_level = Idle /\ cli_level = Idle
    /\ cli_report = Idle /\ report_file = Idle /\ exit_code = Idle

LoadIdle ==
    /\ response = Idle /\ expected_sha256 = Idle /\ bundle_file = FALSE
    /\ dest_files = {} /\ load_exc = Idle /\ load_manifest = Idle

LoaderIdle ==
    /\ argv = Idle /\ client = Idle /\ close_calls = 0 /\ load_call = Idle
    /\ load_outcome = Idle /\ raising = Idle

\* The variables of the specifications up to SpecLoad, unused
OldIdle ==
    /\ ScanIdle
    /\ control_results = Idle /\ level = 0
    /\ findings = <<>>
    /\ sev_in = Idle /\ sev_out = Idle
    /\ EnrichIdle /\ SerialIdle /\ CliIdle /\ LoadIdle

\* The variables of the specifications after SpecLoad, unused
RaceIdle == tpc = Idle /\ fetched = Idle /\ returned = Idle

ControlsIdle ==
    /\ ctl = Idle /\ tool = Idle /\ feeds = Idle /\ elapsed = 0 /\ run_out = Idle
    /\ in_report = Idle

ProcessIdle == proc = Idle /\ earlier = Idle /\ the_scan = Idle /\ last_report = Idle

JobIdle ==
    /\ job_env = Idle /\ job_done = Idle /\ job_report = Idle /\ callbacks = <<>>
    /\ job_exc = Idle /\ job_exit = Idle

LaterIdle == LoaderIdle /\ RaceIdle /\ ControlsIdle /\ ProcessIdle /\ JobIdle

ExtIdle == CliIdle /\ LoadIdle /\ LaterIdle

AuxIdle == EnrichIdle /\ SerialIdle /\ ExtIdle

\* The variables of Spec, SpecLevel, SpecRisk and SpecSeverity, unused
BaseIdle ==
    /\ ScanIdle
    /\ control_results = Idle /\ level = 0
    /\ findings = <<>>
    /\ sev_in = Idle /\ sev_out = Idle
    /\ ExtIdle

InitLevel ==
    /\ pc = "call"
    /\ ScanIdle
    /\ AuxIdle
    /\ \E base \in GroupResults, S \in EditSets :
          \E e \in [S -> StatusOrAbsent] : control_results = Edited(base, S, e)
    /\ level = 0
    /\ findings = <<>>
    /\ sev_in = Idle
    /\ sev_out = Idle

\* report.compliance_level / calculate_compliance_level(control_results)
ComputeLevel ==
    /\ pc = "call"
    /\ pc' = "returned"
    /\ level' = calculate_compliance_level(control_results)
    /\ UNCHANGED <<control_results, scanVars, riskVars, sevVars, auxVars>>

NextLevel == ComputeLevel

SpecLevel == InitLevel /\ [][NextLevel]_vars

(***************************************************************************)
(* Claims on the compliance level                                          *)
(***************************************************************************)
\* All the controls required at lvl have a result with status PASS.
Achieved(lvl) == \A c \in RequiredAt(lvl) : control_results[c] = "pass"

\* C2: the returned level is the highest L in 1..4 whose own full required
\* set is all PASS, and 0 (NONE) when no level is achieved; so all
\* level-4-required controls at PASS give 4.
C2_HighestAchievedLevel ==
    pc = "returned" =>
        /\ level \in ComplianceLevel
        /\ (level # 0 => Achieved(level))
        /\ \A l \in 1..4 : Achieved(l) => level >= l
        /\ (Achieved(4) => level = 4)

\* C2 witness: exactly the fourteen controls required at L2 passed and the
\* computed level is L2.
C2_Witness ==
    /\ pc = "returned"
    /\ level = 2
    /\ \A c \in ControlIds : control_results[c] = "pass" <=> c \in RequiredAt(2)

\* C3: whenever one of the level-1-required controls lacks a PASS result
\* (SKIP, ERROR, FAIL or no result), the level is NONE.
C3_Level1Blocks ==
    pc = "returned" =>
        ((\E c \in RequiredAt(1) : control_results[c] # "pass") => level = 0)

\* C3 witness: a level-1 control is SKIP while every other control passed.
C3_Witness ==
    /\ pc = "returned"
    /\ level = 0
    /\ \E c \in RequiredAt(1) :
          /\ control_results[c] = "skip"
          /\ \A d \in ControlIds \ {c} : control_results[d] = "pass"

(***************************************************************************)
(* models.py: Finding.  Of the free-form metadata the three keys that      *)
(* risk_score reads are kept; a key that is missing reads as FALSE         *)
(* (metadata.get(key) is None).                                            *)
(***************************************************************************)
NoMetadata == [verified |-> FALSE, in_kev |-> FALSE, blocking |-> FALSE]

Finding(control, severity, in_deps, metadata) ==
    [control |-> control, severity |-> severity, in_deps |-> in_deps, metadata |-> metadata]

(***************************************************************************)
(* SecurityReport.risk_score, tier 1: the seven tests made on one finding  *)
(* inside the first for loop.                                              *)
(***************************************************************************)
tier1_critical_no_cq07(f) ==
    \/ f.control = "CD-03" /\ f.severity \in {"critical", "high"}
    \/ f.control = "CQ-02" /\ f.severity = "critical"
    \/ f.control = "CQ-01" /\ f.metadata.verified
    \/ f.control = "CQ-06" /\ f.severity \in {"critical", "high"}
    \/ f.control = "SC-02" /\ f.severity = "critical"
    \/ f.control = "SC-02" /\ f.metadata.in_kev

tier1_critical_by_severity(f) ==
    \/ f.control = "CD-03" /\ f.severity \in {"critical", "high"}
    \/ f.control = "CQ-02" /\ f.severity = "critical"
    \/ f.control = "CQ-01" /\ f.metadata.verified /\ f.severity = "critical"
    \/ f.control = "CQ-06" /\ f.severity \in {"critical", "high"}
    \/ f.control = "SC-02" /\ f.severity = "critical"
    \/ f.control = "SC-02" /\ f.metadata.in_kev /\ f.severity = "critical"
    \/ f.control = "CQ-07" /\ f.severity \in {"critical", "high"}

tier1_critical(f) ==
    \/ f.control = "CD-03" /\ f.severity \in {"critical", "high"}
    \/ f.control = "CQ-02" /\ f.severity = "critical"
    \/ f.control = "CQ-01" /\ f.metadata.verified
    \/ f.control = "CQ-06" /\ f.severity \in {"critical", "high"}
    \/ f.control = "SC-02" /\ f.severity = "critical"
    \/ f.control = "SC-02" /\ f.metadata.in_kev
    \/ f.control = "CQ-07" /\ f.severity \in {"critical", "high"}

\* The first for loop from position i on: TRUE when it returns CRITICAL.
RECURSIVE tier1_loop(_, _)
tier1_loop(fs, i) ==
    IF i > Len(fs) THEN FALSE
    ELSE IF tier1_critical(fs[i]) THEN TRUE
         ELSE tier1_loop(fs, i + 1)

\* The list comprehensions of tiers 2 and 3.
IsServerHigh(f) == f.severity = "high" /\ ~f.in_deps
IsHighVuln(f) == f.control = "SC-02" /\ f.severity = "high" /\ f.metadata.blocking
IsOauthIssue(f) == f.control \in {"CD-04", "CD-05"} /\ f.severity = "high"
IsMedium(f) == f.severity = "medium"
IsLowOrInfo(f) == f.severity \in {"low", "info"}

server_high_with_deps(fs) == SelectSeq(fs, LAMBDA f : f.severity = "high")
server_high(fs) == SelectSeq(fs, IsServerHigh)
high_vulns(fs) == SelectSeq(fs, IsHighVuln)
oauth_issues(fs) == SelectSeq(fs, IsOauthIssue)
medium_unless_low(fs) ==
    IF \E i \in 1..Len(fs) : IsLowOrInfo(fs[i]) THEN <<>> ELSE SelectSeq(fs, IsMedium)
medium(fs) == SelectSeq(fs, IsMedium)
low_or_info(fs) == SelectSeq(fs, IsLowOrInfo)

\* SecurityReport.risk_score over findings = self.all_findings
risk_score(fs) ==
    IF tier1_loop(fs, 1) THEN "CRITICAL"
    ELSE IF server_high(fs) # <<>> THEN "HIGH"
    ELSE IF high_vulns(fs) # <<>> THEN "HIGH"
    ELSE IF oauth_issues(fs) # <<>> THEN "HIGH"
    ELSE IF medium(fs) # <<>> THEN "MEDIUM"
    ELSE IF low_or_info(fs) # <<>> THEN "LOW"
    ELSE "NONE"

(***************************************************************************)
(* SpecRisk: a report whose controls receive findings one at a time.  The  *)
(* variable findings is all_findings, the concatenation of the findings of *)
(* every control of every domain in iteration order; a finding stored in   *)
(* some control's result lands at some position of that list, so           *)
(* AddFinding inserts at any position.  A finding carries the metadata     *)
(* keys its control writes: verified for CQ-01 (cq01_secrets.py), in_kev   *)
(* and blocking for SC-02 (sc02_vuln_scan.py).                             *)
(***************************************************************************)
MaxFindings == 2

\* Finding.control values: the ids risk_score names, and AI-01 for the rest
FindingControls ==
    {"CD-03", "CQ-02", "CQ-01", "CQ-06", "SC-02", "CQ-07", "CD-04", "CD-05", "AI-01"}

MetadataOf(control) ==
    IF control = "CQ-01"
    THEN {[NoMetadata EXCEPT !.verified = v] : v \in BOOLEAN}
    ELSE IF control = "SC-02"
    THEN {[NoMetadata EXCEPT !.in_kev = k, !.blocking = b] : k \in BOOLEAN, b \in BOOLEAN}
    ELSE {NoMetadata}

InsertAt(fs, pos, f) == SubSeq(fs, 1, pos - 1) \o <<f>> \o SubSeq(fs, pos, Len(fs))
RemoveAt(fs, pos) == SubSeq(fs, 1, pos - 1) \o SubSeq(fs, pos + 1, Len(fs))

InitRisk ==
    /\ pc = "report"
    /\ ScanIdle
    /\ AuxIdle
    /\ findings = <<>>
    /\ control_results = Idle
    /\ level = 0
    /\ sev_in = Idle
    /\ sev_out = Idle

AddFinding ==
    /\ pc = "report"
    /\ Len(findings) < MaxFindings
    /\ \E c \in FindingControls, sv \in Severity, d \in BOOLEAN :
         \E md \in MetadataOf(c), pos \in 1..(Len(findings) + 1) :
            findings' = InsertAt(findings, pos, Finding(c, sv, d, md))
    /\ UNCHANGED <<pc, scanVars, levelVars, sevVars, auxVars>>

NextRisk == AddFinding

SpecRisk == InitRisk /\ [][NextRisk]_vars

(***************************************************************************)
(* Claims on the risk score                                                *)
(***************************************************************************)
Score == risk_score(findings)

FindingsSet == {findings[i] : i \in 1..Len(findings)}

\* The CRITICAL-tier rules as the claims list them.
C4_Qualifies(f) ==
    \/ f.control \in {"CD-03", "CQ-06", "CQ-07"} /\ f.severity \in {"critical", "high"}
    \/ f.control \in {"CQ-02", "SC-02"} /\ f.severity = "critical"
    \/ f.control = "CQ-01" /\ f.metadata.verified
    \/ f.control = "SC-02" /\ f.metadata.in_kev

\* C4: inserting a finding that satisfies a CRITICAL-tier rule at any
\* position of any finding sequence makes the risk score CRITICAL.
C4_InsertCriticalGivesCritical ==
    [][\A pos \in 1..Len(findings') :
          (/\ findings = RemoveAt(findings', pos)
           /\ C4_Qualifies(findings'[pos]))
          => risk_score(findings') = "CRITICAL"]_vars

\* C4 witness: a CQ-07 HIGH finding was inserted in front of a MEDIUM one.
C4_Witness ==
    /\ Len(findings) = 2
    /\ findings[1].control = "CQ-07" /\ findings[1].severity = "high"
    /\ findings[2].severity = "medium" /\ ~C4_Qualifies(findings[2])
    /\ Score = "CRITICAL"

\* C5: with no CRITICAL-tier finding, the score is HIGH iff a HIGH finding
\* outside dependencies, a blocking HIGH SC-02 finding or a HIGH CD-04/CD-05
\* finding exists; otherwise MEDIUM iff a MEDIUM finding exists; otherwise
\* LOW iff a LOW or INFO finding exists.
C5_High ==
    \E f \in FindingsSet :
        \/ f.severity = "high" /\ ~f.in_deps
        \/ f.control = "SC-02" /\ f.severity = "high" /\ f.metadata.blocking
        \/ f.control \in {"CD-04", "CD-05"} /\ f.severity = "high"

C5_Medium == \E f \in FindingsSet : f.severity = "medium"

C5_Low == \E f \in FindingsSet : f.severity \in {"low", "info"}

C5_LowerTiers ==
    (\A f \in FindingsSet : ~C4_Qualifies(f)) =>
        /\ Score = "HIGH" <=> C5_High
        /\ ~C5_High => (Score = "MEDIUM" <=> C5_Medium)
        /\ (~C5_High /\ ~C5_Medium) => (Score = "LOW" <=> C5_Low)

\* C5 witness: a HIGH finding in dependency code next to a MEDIUM one, no
\* tier-1 or tier-2 rule matching: the score is MEDIUM.
C5_Witness ==
    /\ Len(findings) = 2
    /\ \A f \in FindingsSet : ~C4_Qualifies(f)
    /\ ~C5_High
    /\ \E f \in FindingsSet : f.severity = "high" /\ f.in_deps
    /\ C5_Medium
    /\ Score = "MEDIUM"

\* C6: the risk score is NONE if and only if the report has no findings.
C6_NoneIffNoFindings == (Score = "NONE") <=> (findings = <<>>)

\* C7 (as claimed): when every finding is in dependency code and none is a
\* verified secret or a KEV match, the score is neither HIGH nor CRITICAL.
C7_DepsNeverBlock ==
    (\A f \in FindingsSet :
        f.in_deps /\ ~(f.metadata.verified \/ f.metadata.in_kev))
    => Score \notin {"HIGH", "CRITICAL"}

\* The rules of risk_score that name a control.
C7_ControlRule(f) ==
    \/ C4_Qualifies(f)
    \/ f.control = "SC-02" /\ f.severity = "high" /\ f.metadata.blocking
    \/ f.control \in {"CD-04", "CD-05"} /\ f.severity = "high"

\* C7 (amended): when every finding is in dependency code and none matches
\* a rule of risk_score that names its control, the score is neither HIGH
\* nor CRITICAL.
C7_DepsNeverBlockUnlessRule ==
    (\A f \in FindingsSet : f.in_deps /\ ~C7_ControlRule(f))
    => Score \notin {"HIGH", "CRITICAL"}

\* C7 witness: a single HIGH finding in dependency code (an unverified
\* secret) and a score that is not HIGH.
C7_Witness ==
    /\ Len(findings) = 1
    /\ findings[1].in_deps /\ findings[1].severity = "high"
    /\ findings[1].control = "CQ-01" /\ ~findings[1].metadata.verified
    /\ Score \notin {"HIGH", "CRITICAL"}

\* C8: a verified CQ-01 secret or an SC-02 KEV match makes the score
\* CRITICAL whatever the finding's severity and in_deps flag.
C8_VerifiedOrKevIsCritical ==
    (\E f \in FindingsSet :
        \/ f.control = "CQ-01" /\ f.metadata.verified
        \/ f.control = "SC-02" /\ f.metadata.in_kev)
    => Score = "CRITICAL"

\* C8 witness: one CQ-01 finding, verified, severity HIGH, in dependency
\* code, and the score is CRITICAL.
C8_Witness ==
    /\ Len(findings) = 1
    /\ findings[1].control = "CQ-01" /\ findings[1].metadata.verified
    /\ findings[1].severity = "high" /\ findings[1].in_deps
    /\ Score = "CRITICAL"

(***************************************************************************)
(* sc02_vuln_scan.py: SC02VulnerabilityScan._calculate_severity.           *)
(* Scores are fixed-point: a CVSS score is counted in tenths (9.0 is 90),  *)
(* an exploit probability in hundredths (0.10 is 10); None is a missing    *)
(* score.  The returned reason string is left out.                         *)
(***************************************************************************)
EPSS_ESCALATION_THRESHOLD == 10

SevResult(severity, is_blocking) == [severity |-> severity, is_blocking |-> is_blocking]

calculate_severity_epss_ge(grype_severity, cvss_score, epss_score, in_kev) ==
    IF in_kev THEN SevResult("critical", TRUE)
    ELSE IF cvss_score # None
    THEN IF Val(cvss_score) >= 90 THEN SevResult("critical", TRUE)
         ELSE IF Val(cvss_score) >= 70
         THEN IF epss_score # None /\ Val(epss_score) >= EPSS_ESCALATION_THRESHOLD
              THEN SevResult("high", TRUE)
              ELSE IF epss_score # None THEN SevResult("medium", FALSE)
              ELSE SevResult("high", TRUE)
         ELSE IF Val(cvss_score) >= 40 THEN SevResult("medium", FALSE)
         ELSE SevResult("low", FALSE)
    ELSE IF grype_severity = "critical" THEN SevResult("critical", TRUE)
    ELSE IF grype_severity = "high" THEN SevResult("high", TRUE)
    ELSE IF grype_severity = "medium" THEN SevResult("medium", FALSE)
    ELSE IF grype_severity = "low" THEN SevResult("low", FALSE)
    ELSE SevResult("info", FALSE)

calculate_severity(grype_severity, cvss_score, epss_score, in_kev) ==
    IF in_kev THEN SevResult("critical", TRUE)
    ELSE IF cvss_score # None
    THEN IF Val(cvss_score) >= 90 THEN SevResult("critical", TRUE)
         ELSE IF Val(cvss_score) >= 70
         THEN IF epss_score # None /\ Val(epss_score) > EPSS_ESCALATION_THRESHOLD
              THEN SevResult("high", TRUE)
              ELSE IF epss_score # None THEN SevResult("medium", FALSE)
              ELSE SevResult("high", TRUE)
         ELSE IF Val(cvss_score) >= 40 THEN SevResult("medium", FALSE)
         ELSE SevResult("low", FALSE)
    ELSE IF grype_severity = "critical" THEN SevResult("critical", TRUE)
    ELSE IF grype_severity = "high" THEN SevResult("high", TRUE)
    ELSE IF grype_severity = "medium" THEN SevResult("medium", FALSE)
    ELSE IF grype_severity = "low" THEN SevResult("low", FALSE)
    ELSE SevResult("info", FALSE)

(***************************************************************************)
(* SpecSeverity: one call of _calculate_severity on drawn arguments.       *)
(***************************************************************************)
MaxCvss == 100
MaxEpss == 100

\* vuln.get("severity", "unknown").lower(): Grype's labels
GrypeSeverities == {"critical", "high", "medium", "low", "negligible", "unknown"}

InitSeverity ==
    /\ pc = "call"
    /\ ScanIdle
    /\ AuxIdle
    /\ \E g \in GrypeSeverities, c \in {None} \cup {Some(x) : x \in 0..MaxCvss},
          e \in {None} \cup {Some(x) : x \in 0..MaxEpss}, k \in BOOLEAN :
          sev_in = [grype_severity |-> g, cvss_score |-> c, epss_score |-> e, in_kev |-> k]
    /\ sev_out = Idle
    /\ control_results = Idle
    /\ level = 0
    /\ findings = <<>>

CalculateSeverity ==
    /\ pc = "call"
    /\ pc' = "returned"
    /\ sev_out' = calculate_severity(sev_in.grype_severity, sev_in.cvss_score,
                                     sev_in.epss_score, sev_in.in_kev)
    /\ UNCHANGED <<sev_in, scanVars, levelVars, riskVars, auxVars>>

NextSeverity == CalculateSeverity

SpecSeverity == InitSeverity /\ [][NextSeverity]_vars

\* C9: the result follows the six-step table: KEV first; CVSS >= 9.0;
\* CVSS in [7.0, 9.0) split by the exploit probability (> 0.10, known and
\* <= 0.10, unknown); CVSS in [4.0, 7.0); CVSS < 4.0; no CVSS: the label.
C9_HasCvss == sev_in.cvss_score # None
C9_HasEpss == sev_in.epss_score # None
C9_Cvss == Val(sev_in.cvss_score)
C9_Epss == Val(sev_in.epss_score)
C9_Is(severity, is_blocking) ==
    sev_out.severity = severity /\ sev_out.is_blocking = is_blocking

C9_SeverityTable ==
    pc = "returned" =>
        /\ sev_in.in_kev => C9_Is("critical", TRUE)
        /\ (~sev_in.in_kev /\ C9_HasCvss) =>
              /\ C9_Cvss >= 90 => C9_Is("critical", TRUE)
              /\ (C9_Cvss >= 70 /\ C9_Cvss < 90) =>
                    /\ (C9_HasEpss /\ C9_Epss > 10) => C9_Is("high", TRUE)
                    /\ (C9_HasEpss /\ C9_Epss <= 10) => C9_Is("medium", FALSE)
                    /\ ~C9_HasEpss => C9_Is("high", TRUE)
              /\ (C9_Cvss >= 40 /\ C9_Cvss < 70) => C9_Is("medium", FALSE)
              /\ C9_Cvss < 40 => C9_Is("low", FALSE)
        /\ (~sev_in.in_kev /\ ~C9_HasCvss) =>
              /\ sev_in.grype_severity = "critical" => C9_Is("critical", TRUE)
              /\ sev_in.grype_severity = "high" => C9_Is("high", TRUE)
              /\ sev_in.grype_severity = "medium" => C9_Is("medium", FALSE)
              /\ sev_in.grype_severity = "low" => C9_Is("low", FALSE)

\* C9 witness: CVSS 7.5 with exploit probability 0.05, not in KEV, came
\* back MEDIUM and non-blocking.
C9_Witness ==
    /\ pc = "returned"
    /\ ~sev_in.in_kev /\ sev_in.cvss_score = Some(75) /\ sev_in.epss_score = Some(5)
    /\ sev_out = SevResult("medium", FALSE)

(***************************************************************************)
(* controls/: the registered controls.  ControlRegistry._controls in       *)
(* registration order, which is the order in which scanner.py imports the  *)
(* control packages; each row is the class's id and domain.                *)
(***************************************************************************)
REGISTRY ==
    << <<"AI-01", "artifact_integrity">>, <<"AI-02", "artifact_integrity">>,
       <<"AI-03", "artifact_integrity">>, <<"AI-04", "artifact_integrity">>,
       <<"AI-05", "artifact_integrity">>,
       <<"CD-01", "capability_declaration">>, <<"CD-02", "capability_declaration">>,
       <<"CD-03", "capability_declaration">>, <<"CD-04", "capability_declaration">>,
       <<"CD-05", "capability_declaration">>,
       <<"CQ-01", "code_quality">>, <<"CQ-02", "code_quality">>,
       <<"CQ-03", "code_quality">>, <<"CQ-04", "code_quality">>,
       <<"CQ-05", "code_quality">>, <<"CQ-06", "code_quality">>,
       <<"PR-01", "provenance">>, <<"PR-02", "provenance">>,
       <<"PR-03", "provenance">>, <<"PR-04", "provenance">>,
       <<"PR-05", "provenance">>,
       <<"SC-01", "supply_chain">>, <<"SC-02", "supply_chain">>,
       <<"SC-03", "supply_chain">>, <<"SC-04", "supply_chain">>,
       <<"SC-05", "supply_chain">> >>

\* ControlRegistry.get_all(): the ids, in dict order
get_all == [i \in 1..Len(REGISTRY) |-> REGISTRY[i][1]]
Registered == {REGISTRY[i][1] : i \in 1..Len(REGISTRY)}

\* control.domain
ControlDomain(c) == REGISTRY[CHOOSE i \in 1..Len(REGISTRY) : REGISTRY[i][1] = c][2]

\* scanner.py: DOMAINS (its keys)
DOMAINS ==
    {"artifact_integrity", "supply_chain", "code_quality", "capability_declaration",
     "provenance"}

\* The controls whose run() is the single statement return self.skip(...)
StubControls ==
    {"AI-02", "AI-03", "AI-04", "CQ-04", "CQ-06", "SC-05", "CD-04", "PR-03", "PR-04", "PR-05"}

\* The controls whose run() returns self.error(...) when their tool is
\* missing or times out
ToolControls == {"SC-01", "SC-02", "CQ-01", "CQ-02"}

\* The controls whose class defines __init__ (CQ-05 loads its rules there)
InitControls == {"CQ-05"}

(***************************************************************************)
(* models.py: ControlResult (duration left out) and the two convenience    *)
(* results of base.py.  A message is modelled by its origin and control.   *)
(* findings is filled in where a control's run() is modelled from its      *)
(* code, and empty elsewhere.                                              *)
(***************************************************************************)
ControlResult(control_id, status, error, raw_output) ==
    [control_id |-> control_id, status |-> status, error |-> error, raw_output |-> raw_output,
     findings |-> <<>>]

skip_as_pass(c) == ControlResult(c, "pass", None, None)

\* Control.skip(reason)
skip(c) == ControlResult(c, "skip", Some(<<"reason", c>>), None)
\* Control.error(message)
error(c) == ControlResult(c, "error", Some(<<"message", c>>), None)

\* str(e) of the exception that control c's run() raises
ExcMessage(c) == <<"exception", c>>

(***************************************************************************)
(* What instantiating and running control c can do on some bundle:         *)
(*   init_raise  control_class() raises                                    *)
(*   raise       run() raises an Exception with message ExcMessage(c)      *)
(*   return      run() returns result                                      *)
(* SC-01's PASS result carries raw_output (one component here).            *)
(***************************************************************************)
Returns(r) == [kind |-> "return", result |-> r, message |-> Idle]
Raises(c) == [kind |-> "raise", result |-> Idle, message |-> ExcMessage(c)]
InitRaises == [kind |-> "init_raise", result |-> Idle, message |-> Idle]

Outcomes(c) ==
    IF c \in StubControls THEN {Returns(skip(c))}
    ELSE {Returns(ControlResult(c, "pass", None, IF c = "SC-01" THEN Some(1) ELSE None)),
          Returns(ControlResult(c, "fail", None, None)),
          Raises(c)}
         \cup (IF c \in ToolControls THEN {Returns(error(c))} ELSE {})
         \cup (IF c \in InitControls THEN {InitRaises} ELSE {})

(***************************************************************************)
(* scan_bundle, lines 184-193: result = control.run(...) under             *)
(* try / except Exception.                                                 *)
(***************************************************************************)
run_isolated_no_except(c, outcome) ==
    IF outcome.kind = "raise"
    THEN [propagates |-> TRUE, result |-> Idle]
    ELSE [propagates |-> FALSE, result |-> outcome.result]

run_isolated(c, outcome) ==
    IF outcome.kind = "raise"
    THEN [propagates |-> FALSE, result |-> ControlResult(c, "error", Some(outcome.message), None)]
    ELSE [propagates |-> FALSE, result |-> outcome.result]

(***************************************************************************)
(* The archive.  An entry name is its sequence of path components.         *)
(***************************************************************************)
EntryNames ==
    {<<"manifest.json">>, <<"src", "server.py">>, <<"..", "..", "etc", "passwd">>}

\* What manifest.json holds: a JSON object, the object {}, text that is not
\* JSON, JSON that is not an object (a list), bytes that are not UTF-8.
ManifestTexts == {"object", "empty_object", "invalid_json", "non_object", "undecodable"}

\* (extract_dir / name).resolve() lies outside extract_dir: walking the
\* components from depth 0, some ".." steps above the root.
RECURSIVE EscapesFrom(_, _, _)
EscapesFrom(name, i, depth) ==
    IF i > Len(name) THEN FALSE
    ELSE IF name[i] = ".." THEN (depth = 0 \/ EscapesFrom(name, i + 1, depth - 1))
    ELSE IF name[i] \in {"", "."} THEN EscapesFrom(name, i + 1, depth)
    ELSE EscapesFrom(name, i + 1, depth + 1)

Escapes(name) == EscapesFrom(name, 1, 0)

\* zipfile.ZipFile.extractall(extract_dir), one member: the components "",
\* "." and ".." are dropped from the name and the rest is joined under
\* extract_dir; the member is written there.
IsValidPart(x) == x \notin {"", ".", ".."}
extract_member(name) == [outside |-> FALSE, path |-> SelectSeq(name, IsValidPart)]

\* zf.extractall(extract_dir): the files written
extractall(entries) == {extract_member(entries[i]) : i \in 1..Len(entries)}

\* manifest_path.exists()
manifest_exists(written) == [outside |-> FALSE, path |-> <<"manifest.json">>] \in written

(***************************************************************************)
(* ai01_manifest.py, AI01ValidManifest.run, lines 42-82: the two early     *)
(* returns, on a bundle without manifest.json and on a falsy manifest.     *)
(***************************************************************************)
AI01Finding(id, title) ==
    [id |-> id, control |-> "AI-01", severity |-> "critical", title |-> title]

ai01_fail(finding) ==
    [ControlResult("AI-01", "fail", None, None) EXCEPT !.findings = <<finding>>]

\* Some(result) when run() returns early, None when it goes on to the schema
ai01_early(written, man) ==
    IF ~manifest_exists(written)
    THEN Some(ai01_fail(AI01Finding("AI-01-0001", "Missing manifest.json")))
    ELSE IF man = "empty"
    THEN Some(ai01_fail(AI01Finding("AI-01-0002", "Empty or invalid manifest")))
    ELSE None

(***************************************************************************)
(* cq02_malicious.py, CQ02NoMaliciousPatterns: the detection of the        *)
(* bundle's ecosystem and the early return of run (lines 82-88).           *)
(***************************************************************************)
PYTHON_EXTENSIONS == {".py"}
JS_EXTENSIONS == {".js", ".mjs", ".cjs", ".jsx", ".ts", ".tsx", ".mts", ".cts"}
SKIP_DIRS == {"deps", "node_modules", "vendor", "site-packages", ".venv", "venv", "__pycache__"}

\* path.suffix.lower() of the file names that occur in the archives
Suffix(name) ==
    CASE name \in {"server.py", "lib.py"} -> ".py"
      [] name = "index.js" -> ".js"
      [] name \in {"manifest.json", "package.json", "package-lock.json"} -> ".json"
      [] name = "uv.lock" -> ".lock"
      [] OTHER -> ""

\* The files of the bundle outside the skipped directories
OwnFiles(written) ==
    {f \in written : f.path # <<>> /\ \A i \in 1..Len(f.path) : f.path[i] \notin SKIP_DIRS}

FileName(f) == f.path[Len(f.path)]

detect_ecosystem_by_lockfile(written) ==
    IF \E f \in OwnFiles(written) : Suffix(FileName(f)) \in PYTHON_EXTENSIONS \cup {".lock"}
    THEN Some("pypi")
    ELSE IF \/ \E f \in OwnFiles(written) : Suffix(FileName(f)) \in JS_EXTENSIONS
            \/ [outside |-> FALSE, path |-> <<"package.json">>] \in written
    THEN Some("npm")
    ELSE None

\* _detect_ecosystem(bundle_dir)
detect_ecosystem(written) ==
    IF \E f \in OwnFiles(written) : Suffix(FileName(f)) \in PYTHON_EXTENSIONS
    THEN Some("pypi")
    ELSE IF \/ \E f \in OwnFiles(written) : Suffix(FileName(f)) \in JS_EXTENSIONS
            \/ [outside |-> FALSE, path |-> <<"package.json">>] \in written
    THEN Some("npm")
    ELSE None

\* run, lines 86-88: self.error("Could not detect bundle ecosystem ...")
cq02_no_ecosystem == ControlResult("CQ-02", "error", Some(<<"no_ecosystem">>), None)

(***************************************************************************)
(* cd02_permission_scope.py, CD02PermissionScope.run: a manifest without   *)
(* _meta.org.mpaktrust.permissions gets the finding "No permissions        *)
(* declared" (lines 299-316) and, with it, the status FAIL (387-414).      *)
(***************************************************************************)
has_permissions(man) == man = "object_with_permissions"

cd02_no_permissions ==
    [ControlResult("CD-02", "fail", None, None) EXCEPT
        !.findings = <<[id |-> "CD-02-0001", control |-> "CD-02", severity |-> "low",
                        title |-> "No permissions declared"]>>]

\* What control c can do on the extracted bundle: AI-01, CQ-02 and CD-02
\* from their code where the bundle decides the result, every other case
\* as in Outcomes.
RunOutcomes(c, written, man) ==
    IF c = "AI-01" /\ ai01_early(written, man) # None
    THEN {Returns(Val(ai01_early(written, man)))}
    ELSE IF c = "CQ-02" /\ detect_ecosystem(written) = None
    THEN {Returns(cq02_no_ecosystem)}
    ELSE IF c = "CD-02" /\ ~has_permissions(man)
    THEN {Returns(cd02_no_permissions), Raises(c)}
    ELSE Outcomes(c)

(***************************************************************************)
(* Spec: the arguments of one scan_bundle call.                            *)
(***************************************************************************)
MaxEntries == 1
MaxSel == 2
MaxNonPass == 1

SeqsUpTo(S, n) == UNION {[1..k -> S] : k \in 0..n}

Bundles ==
    {[kind |-> k, entries |-> <<>>, manifest_text |-> "none"] : k \in {"unreadable", "not_zip"}}
    \cup UNION {{[kind |-> "zip", entries |-> es, manifest_text |-> m] :
                    m \in IF manifest_exists(extractall(es)) THEN ManifestTexts ELSE {"none"}} :
                es \in SeqsUpTo(EntryNames, MaxEntries)}

\* ids a caller passes in controls: registered ones and an unknown one
SelectionPool == {"AI-01", "SC-01", "AI-03", "XX-99"}

ControlsNone == [is_none |-> TRUE, ids |-> <<>>]
ControlsArgs ==
    {ControlsNone} \cup {[is_none |-> FALSE, ids |-> l] : l \in SeqsUpTo(SelectionPool, MaxSel)}

Init ==
    /\ pc = "start"
    /\ bundle \in Bundles
    /\ work_dir \in {"None", "caller_dir"}
    /\ controls \in ControlsArgs
    /\ cleanup = FALSE
    /\ tmp_dir_exists = FALSE
    /\ caller_dir_exists = (work_dir = "caller_dir")
    /\ files = {}
    /\ manifest = Idle
    /\ report = Idle
    /\ controls_to_run = <<>>
    /\ next_i = 0
    /\ invoked = <<>>
    /\ exc = Idle
    /\ control_results = Idle /\ level = 0
    /\ findings = <<>>
    /\ sev_in = Idle /\ sev_out = Idle
    /\ AuxIdle

\* finally: if cleanup: shutil.rmtree(work_dir, ignore_errors=True)
FinallyTmpDir_no_rmtree == tmp_dir_exists

FinallyTmpDir == IF cleanup THEN FALSE ELSE tmp_dir_exists
FinallyCallerDir == IF cleanup /\ work_dir = "caller_dir" THEN FALSE ELSE caller_dir_exists
FinallyFiles == IF cleanup THEN {f \in files : f.outside} ELSE files

\* An exception leaves scan_bundle through the finally block.
Raise(e) ==
    /\ pc' = "raised"
    /\ exc' = e
    /\ tmp_dir_exists' = FinallyTmpDir
    /\ caller_dir_exists' = FinallyCallerDir
    /\ files' = FinallyFiles

\* lines 138-152: the hash of the archive, then the working directory
Start ==
    /\ pc = "start"
    /\ IF bundle.kind = "unreadable"
       THEN /\ pc' = "raised"
            /\ exc' = "OSError"
            /\ UNCHANGED <<cleanup, tmp_dir_exists>>
       ELSE /\ pc' = "extract"
            /\ cleanup' = (work_dir = "None")
            /\ tmp_dir_exists' = (work_dir = "None")
            /\ UNCHANGED exc
    /\ UNCHANGED <<bundle, work_dir, controls, caller_dir_exists, files, manifest, report,
                   controls_to_run, next_i, invoked, levelVars, riskVars, sevVars,
                   auxVars>>

\* line 155: extract_bundle(bundle_path, extract_dir)
ExtractBundle ==
    /\ pc = "extract"
    /\ IF bundle.kind = "not_zip"
       THEN /\ Raise("BadZipFile")
            /\ UNCHANGED manifest
       ELSE LET written == extractall(bundle.entries) IN
            IF manifest_exists(written) /\ bundle.manifest_text = "undecodable"
            THEN /\ pc' = "raised"
                 /\ exc' = "UnicodeDecodeError"
                 /\ tmp_dir_exists' = FinallyTmpDir
                 /\ caller_dir_exists' = FinallyCallerDir
                 /\ files' = IF cleanup THEN {} ELSE written
                 /\ UNCHANGED manifest
            ELSE /\ pc' = "init_report"
                 /\ files' = written
                 /\ manifest' =
                       IF ~manifest_exists(written) THEN "empty"
                       ELSE IF bundle.manifest_text \in {"empty_object", "invalid_json"}
                            THEN "empty"
                       ELSE bundle.manifest_text
                 /\ UNCHANGED <<tmp_dir_exists, caller_dir_exists, exc>>
    /\ UNCHANGED <<bundle, work_dir, controls, cleanup, report, controls_to_run, next_i,
                   invoked, levelVars, riskVars, sevVars,
                   auxVars>>

\* controls_to_run = {cid: all_controls[cid] for cid in controls if cid in all_controls}
RECURSIVE Resolve(_, _, _)
Resolve(ids, i, acc) ==
    IF i > Len(ids) THEN acc
    ELSE IF ids[i] \in Registered /\ ~\E j \in 1..Len(acc) : acc[j] = ids[i]
         THEN Resolve(ids, i + 1, Append(acc, ids[i]))
         ELSE Resolve(ids, i + 1, acc)

resolve_controls_not_none(arg) ==
    IF ~arg.is_none THEN Resolve(arg.ids, 1, <<>>) ELSE get_all

\* if controls: ... else: controls_to_run = all_controls
resolve_controls(arg) ==
    IF ~arg.is_none /\ arg.ids # <<>> THEN Resolve(arg.ids, 1, <<>>) ELSE get_all

\* lines 156-177: the report, its domains, the controls to run
InitReport ==
    /\ pc = "init_report"
    /\ IF manifest = "non_object"
       THEN /\ Raise("AttributeError")
            /\ UNCHANGED <<report, controls_to_run, next_i>>
       ELSE /\ pc' = "run"
            /\ report' = [domains |-> [d \in DOMAINS |-> <<>>], sbom_component_count |-> 0]
            /\ controls_to_run' = resolve_controls(controls)
            /\ next_i' = 1
            /\ UNCHANGED <<tmp_dir_exists, caller_dir_exists, files, exc>>
    /\ UNCHANGED <<bundle, work_dir, controls, cleanup, manifest, invoked,
                   levelVars, riskVars, sevVars,
                   auxVars>>

\* report.domains[domain].controls[control_id] = result
RECURSIVE SetItem(_, _)
SetItem(rs, r) ==
    IF rs = <<>> THEN <<r>>
    ELSE IF Head(rs).control_id = r.control_id THEN <<r>> \o Tail(rs)
         ELSE <<Head(rs)>> \o SetItem(Tail(rs), r)

\* lines 195-202: the result filed under the control's domain
file_result(doms, c, r) ==
    IF ControlDomain(c) \in DOMAIN doms
    THEN [doms EXCEPT ![ControlDomain(c)] = SetItem(@, r)]
    ELSE [d \in DOMAIN doms \cup {ControlDomain(c)} |->
             IF d = ControlDomain(c) THEN <<r>> ELSE doms[d]]

\* SecurityReport.all_controls, as the set of the results
all_controls(rep) == UNION {{rep.domains[d][i] : i \in 1..Len(rep.domains[d])} : d \in DOMAIN rep.domains}

IsPass(o) == o.kind = "return" /\ o.result.status \in {"pass", "skip"}

\* The outcome is the best that control c can have on this bundle: PASS or
\* SKIP, or a returned result where the bundle leaves no way to PASS
Unforced(c, o) ==
    \/ IsPass(o)
    \/ /\ o.kind = "return"
       /\ \A o2 \in RunOutcomes(c, files, manifest) : ~IsPass(o2)

\* The controls run so far with another outcome (the budget MaxNonPass)
NonPass(inv) == {k \in 1..Len(inv) : ~Unforced(inv[k].control_id, inv[k].outcome)}

\* lines 180-202: one turn of the for loop
RunControl ==
    /\ pc = "run"
    /\ next_i <= Len(controls_to_run)
    /\ LET c == controls_to_run[next_i] IN
       \E o \in RunOutcomes(c, files, manifest) :
          /\ Unforced(c, o) \/ Cardinality(NonPass(invoked)) < MaxNonPass
          /\ IF o.kind = "init_raise"
             THEN /\ Raise("control_init")
                  /\ UNCHANGED <<report, next_i, invoked>>
             ELSE LET t == run_isolated(c, o) IN
                  /\ invoked' = Append(invoked, [control_id |-> c, outcome |-> o])
                  /\ IF t.propagates
                     THEN /\ Raise("control_run")
                          /\ UNCHANGED <<report, next_i>>
                     ELSE /\ report' = [report EXCEPT !.domains = file_result(@, c, t.result)]
                          /\ next_i' = next_i + 1
                          /\ UNCHANGED <<pc, tmp_dir_exists, caller_dir_exists, files, exc>>
    /\ UNCHANGED <<bundle, work_dir, controls, cleanup, manifest, controls_to_run,
                   levelVars, riskVars, sevVars,
                   auxVars>>

\* lines 204-224: the SBOM count, the duration, return report, finally
Finish ==
    /\ pc = "run"
    /\ next_i > Len(controls_to_run)
    /\ pc' = "returned"
    /\ report' =
          LET sc == IF "supply_chain" \in DOMAIN report.domains
                    THEN report.domains["supply_chain"] ELSE <<>>
              sc01 == SelectSeq(sc, LAMBDA r : r.control_id = "SC-01")
          IN IF sc01 # <<>> /\ sc01[1].raw_output # None
             THEN [report EXCEPT !.sbom_component_count = Val(sc01[1].raw_output)]
             ELSE report
    /\ tmp_dir_exists' = FinallyTmpDir
    /\ caller_dir_exists' = FinallyCallerDir
    /\ files' = FinallyFiles
    /\ UNCHANGED <<bundle, work_dir, controls, cleanup, manifest, controls_to_run, next_i,
                   invoked, exc, levelVars, riskVars, sevVars,
                   auxVars>>

Next == Start \/ ExtractBundle \/ InitReport \/ RunControl \/ Finish

Spec == Init /\ [][Next]_vars

(***************************************************************************)
(* Claims on Spec.                                                         *)
(***************************************************************************)
\* The results of control c in the report
StoredResults(c) ==
    IF report = Idle \/ ControlDomain(c) \notin DOMAIN report.domains THEN {}
    ELSE LET rs == report.domains[ControlDomain(c)]
         IN {rs[i] : i \in {j \in 1..Len(rs) : rs[j].control_id = c}}

\* C1: when the run() of a control raises an exception, the report holds
\* for that control one result, of status ERROR and with the exception's
\* message as its error; the scan is not ended by it and goes on with the
\* controls that follow, so that a returned report has a result of every
\* selected control; and every control whose run() returned has in the
\* report exactly the result it returned, whatever the other controls did.
C1_ExceptionIsolated ==
    /\ exc # "control_run"
    /\ pc = "run" => Len(invoked) = next_i - 1
    /\ pc = "returned" => Len(invoked) = Len(controls_to_run)
    /\ \A k \in 1..Len(invoked) :
          LET c == invoked[k].control_id
              o == invoked[k].outcome
          IN /\ c = controls_to_run[k]
             /\ o.kind = "raise" =>
                   StoredResults(c) = {ControlResult(c, "error", Some(ExcMessage(c)), None)}
             /\ o.kind = "return" => StoredResults(c) = {o.result}

\* A scan returned its report although the run() of a control raised, and
\* the control after it was run and has the result it returned.
C1_Witness ==
    /\ pc = "returned"
    /\ \E k \in 1..Len(invoked) - 1 :
          /\ invoked[k].outcome.kind = "raise"
          /\ invoked[k + 1].outcome.kind = "return"
          /\ invoked[k + 1].outcome.result.status = "pass"
          /\ StoredResults(invoked[k + 1].control_id) = {invoked[k + 1].outcome.result}

\* The archive has an entry whose resolved path lies outside extract_dir
HasTraversalEntry ==
    /\ bundle # Idle
    /\ bundle.kind = "zip"
    /\ \E i \in 1..Len(bundle.entries) : Escapes(bundle.entries[i])

\* C10: once extraction has been called on an archive with an entry whose
\* resolved path lies outside the extraction directory, no file is outside
\* the destination, no control has been run, and scan_bundle raises rather
\* than returning a report.
C10_TraversalRejected ==
    (HasTraversalEntry /\ pc \notin {"start", "extract"}) =>
        /\ \A f \in files : ~f.outside
        /\ invoked = <<>>
        /\ pc = "raised"

\* C11: on every exit of a call that made its own temporary directory
\* (return, extraction failure, any exception raised after the directory
\* was made) that directory no longer exists; the directory a caller passed
\* as work_dir exists throughout the call and after it.
C11_TempDirReleased ==
    /\ (pc \in {"returned", "raised"} /\ work_dir = "None") => ~tmp_dir_exists
    /\ work_dir = "caller_dir" => (caller_dir_exists /\ ~tmp_dir_exists /\ ~cleanup)

\* The call made a temporary directory, extraction failed, and the
\* directory is gone when the exception leaves scan_bundle.
C11_Witness ==
    /\ pc = "raised"
    /\ exc = "BadZipFile"
    /\ cleanup
    /\ ~tmp_dir_exists

\* C12: scan_bundle raises only when the hash of the archive cannot be
\* computed or the archive cannot be opened and extracted; once the
\* entries are extracted, whatever manifest.json holds and whatever the
\* instantiation or the run of a control does, the call returns a report.
C12_NeverRaisesAfterExtraction ==
    pc = "raised" => exc \in {"OSError", "BadZipFile"}

\* SecurityReport.compliance_level: the level of the statuses in the report
control_statuses(rep) ==
    [c \in ControlIds |->
        LET rs == {r \in all_controls(rep) : r.control_id = c}
        IN IF rs = {} THEN "absent" ELSE (CHOOSE r \in rs : TRUE).status]

compliance_level(rep) == calculate_compliance_level(control_statuses(rep))

\* manifest.json is absent from the archive, or is not parseable as JSON
\* (text that is not JSON, bytes that are not text), or is the object {}
ManifestMissingOrEmpty ==
    /\ bundle # Idle
    /\ bundle.kind = "zip"
    /\ bundle.manifest_text \in {"none", "invalid_json", "undecodable", "empty_object"}

\* C13: on an archive whose manifest.json is absent, unparseable or {},
\* scan_bundle does not raise, the controls get the empty manifest, AI-01
\* (when it is among the controls run) has FAIL with a finding on the
\* missing or empty manifest, and the level of the report is NONE.
C13_EmptyManifestFailsAI01 ==
    (ManifestMissingOrEmpty /\ pc \notin {"start", "extract"}) =>
        /\ pc # "raised"
        /\ manifest = "empty"
        /\ \A k \in 1..Len(invoked) :
              invoked[k].control_id = "AI-01" =>
                 \E r \in StoredResults("AI-01") :
                    /\ r.status = "fail"
                    /\ \E i \in 1..Len(r.findings) :
                          r.findings[i].title \in {"Missing manifest.json",
                                                   "Empty or invalid manifest"}
        /\ pc = "returned" => compliance_level(report) = 0

\* The control ids with a result in the report
ResultIds(rep) == {r.control_id : r \in all_controls(rep)}

\* The ids the caller supplied
SuppliedIds == {controls.ids[i] : i \in 1..Len(controls.ids)}

\* C14: the controls with a result in a returned report are every
\* registered control when the caller supplied no ids (None or an empty
\* list), and otherwise exactly the supplied ids that are registered; each
\* of them has one result, and it is stored under the control's domain.
C14_ResultsAreResolvedSet ==
    pc = "returned" =>
        /\ ResultIds(report) = IF SuppliedIds = {} THEN Registered
                               ELSE SuppliedIds \cap Registered
        /\ \A d \in DOMAIN report.domains :
              \A i \in 1..Len(report.domains[d]) :
                 /\ ControlDomain(report.domains[d][i].control_id) = d
                 /\ \A j \in 1..Len(report.domains[d]) :
                       report.domains[d][j].control_id = report.domains[d][i].control_id
                           => j = i

\* The caller supplied an unknown id and a registered one, and the
\* returned report has the result of the registered one only.
C14_Witness ==
    /\ pc = "returned"
    /\ "XX-99" \in SuppliedIds
    /\ ResultIds(report) = {"AI-01"}

(***************************************************************************)
(* sc02_vuln_scan.py: the enrichment of Grype's matches with the KEV       *)
(* catalog and the EPSS scores (fetch_kev_catalog, fetch_epss_scores and   *)
(* SC02VulnerabilityScan.run from line 169 on).  A dict is a function on   *)
(* its keys.                                                               *)
(***************************************************************************)
EmptyDict == [c \in {} |-> 0]

\* d.update(e)
Update(d, e) ==
    [c \in DOMAIN d \cup DOMAIN e |-> IF c \in DOMAIN e THEN e[c] ELSE d[c]]

\* The functions from a subset of S to V
PartialFunctions(S, V) == UNION {[T -> V] : T \in SUBSET S}

\* The CVE ids of the feeds, and the ids Grype reports (GHSA-1 is no CVE id)
CveIds == {"CVE-1", "CVE-2"}
MatchIds == CveIds \cup {"GHSA-1"}

\* Exploit probabilities a feed entry carries, on both sides of the threshold
EpssValues == {EPSS_ESCALATION_THRESHOLD - 5, EPSS_ESCALATION_THRESHOLD + 40}

\* What one request to a feed does: the connection or the HTTP status fails
\* ("network_error"), the body or one of its entries cannot be parsed
\* ("parse_error"), or the data arrives ("ok").
\* The KEV feed: on "ok" the ids of the catalog
KevOutcomes ==
    {[kind |-> k, ids |-> {}] : k \in {"network_error", "parse_error"}}
    \cup {[kind |-> "ok", ids |-> S] : S \in SUBSET CveIds}

\* The EPSS feed on one batch: stored is what the loop over the entries put
\* into scores (on "parse_error", the entries before the unparseable one)
EpssOutcomes(batch) ==
    {[kind |-> "network_error", stored |-> EmptyDict]}
    \cup {[kind |-> k, stored |-> f] :
             k \in {"ok", "parse_error"}, f \in PartialFunctions(batch, EpssValues)}

fetch_kev_catalog_no_except(cache, outcome) ==
    IF cache # None THEN [raises |-> FALSE, catalog |-> Val(cache)]
    ELSE IF outcome.kind = "ok" THEN [raises |-> FALSE, catalog |-> outcome.ids]
    ELSE [raises |-> TRUE, catalog |-> {}]

\* fetch_kev_catalog(): the cache if set, else the fetched catalog, else set()
fetch_kev_catalog(cache, outcome) ==
    IF cache # None THEN [raises |-> FALSE, catalog |-> Val(cache)]
    ELSE IF outcome.kind = "ok" THEN [raises |-> FALSE, catalog |-> outcome.ids]
    ELSE [raises |-> FALSE, catalog |-> {}]

\* run, lines 172-178: the ids that start with "CVE-", one per match
IsCve(id) == id \in CveIds
RECURSIVE cve_ids_of(_)
cve_ids_of(ms) ==
    IF ms = <<>> THEN <<>>
    ELSE (IF IsCve(Head(ms).cve) THEN <<Head(ms).cve>> ELSE <<>>) \o cve_ids_of(Tail(ms))

(***************************************************************************)
(* SpecEnrich: one run of SC-02 from Grype's matches to its result.        *)
(* BatchSize stands for batch_size, which is 100 in fetch_epss_scores; it  *)
(* is scaled down so that a few matches make several batches.              *)
(***************************************************************************)
MaxMatches == 2
BatchSize == 1

Min(a, b) == IF a < b THEN a ELSE b

\* range(0, len(cve_ids), batch_size)
NumBatches(ids) == (Len(ids) + BatchSize - 1) \div BatchSize

\* cve_ids[i : i + batch_size] of batch number k, as the set of its ids
Batch(ids, k) ==
    {ids[j] : j \in ((k - 1) * BatchSize + 1)..Min(k * BatchSize, Len(ids))}

\* A match: the id, the label and the CVSS score (get_cvss_score) of Grype
MatchProfiles ==
    {[severity |-> "high", cvss |-> Some(75)],
     [severity |-> "high", cvss |-> None],
     [severity |-> "medium", cvss |-> Some(50)]}

Matches ==
    {[cve |-> c, severity |-> p.severity, cvss |-> p.cvss] : c \in MatchIds, p \in MatchProfiles}

InitEnrich ==
    /\ pc = "fetch_kev"
    /\ BaseIdle
    /\ SerialIdle
    /\ kev_cache \in {None, Some({}), Some({"CVE-1"})}
    /\ matches \in SeqsUpTo(Matches, MaxMatches)
    /\ kev_catalog = Idle
    /\ epss_scores = Idle
    /\ batch_i = 0
    /\ fetch_log = <<>>
    /\ sc02_result = Idle

LogEntry(feed, batch, kind, stored) ==
    [feed |-> feed, batch |-> batch, kind |-> kind, stored |-> stored]

\* line 181: kev_catalog = fetch_kev_catalog()
FetchKev ==
    /\ pc = "fetch_kev"
    /\ \E o \in IF kev_cache # None THEN {[kind |-> "cached", ids |-> {}]} ELSE KevOutcomes :
          LET r == fetch_kev_catalog(kev_cache, o) IN
          /\ fetch_log' = IF kev_cache # None THEN fetch_log
                          ELSE Append(fetch_log, LogEntry("kev", {}, o.kind, EmptyDict))
          /\ IF r.raises
             THEN /\ pc' = "raised"
                  /\ UNCHANGED <<kev_cache, kev_catalog, epss_scores, batch_i>>
             ELSE /\ pc' = "fetch_epss"
                  /\ kev_cache' = Some(r.catalog)
                  /\ kev_catalog' = r.catalog
                  /\ epss_scores' = EmptyDict
                  /\ batch_i' = 1
    /\ UNCHANGED <<matches, sc02_result, baseVars, serialVars>>

\* fetch_epss_scores, lines 75-95: one turn of the loop over the batches
FetchEpssBatch ==
    /\ pc = "fetch_epss"
    /\ batch_i <= NumBatches(cve_ids_of(matches))
    /\ LET batch == Batch(cve_ids_of(matches), batch_i) IN
       \E o \in EpssOutcomes(batch) :
          /\ epss_scores' = Update(epss_scores, o.stored)
          /\ fetch_log' = Append(fetch_log, LogEntry("epss", batch, o.kind, o.stored))
    /\ batch_i' = batch_i + 1
    /\ UNCHANGED <<pc, kev_cache, matches, kev_catalog, sc02_result,
                   baseVars, serialVars>>

\* run, lines 187-237: the finding of one match
Enrich(m, catalog, scores) ==
    LET epss_score == IF m.cve \in DOMAIN scores THEN Some(scores[m.cve]) ELSE None
        in_kev == m.cve \in catalog
        r == calculate_severity(m.severity, m.cvss, epss_score, in_kev)
    IN [cve |-> m.cve, severity |-> r.severity, epss_score |-> epss_score,
        in_kev |-> in_kev, blocking |-> r.is_blocking]

\* run, lines 184-262: the findings and the status
BuildResult ==
    /\ pc = "fetch_epss"
    /\ batch_i > NumBatches(cve_ids_of(matches))
    /\ pc' = "returned"
    /\ sc02_result' =
          LET fs == [i \in 1..Len(matches) |-> Enrich(matches[i], kev_catalog, epss_scores)]
          IN [status |-> IF \E i \in 1..Len(fs) : fs[i].blocking THEN "fail" ELSE "pass",
              findings |-> fs]
    /\ UNCHANGED <<kev_cache, matches, kev_catalog, epss_scores, batch_i, fetch_log,
                   baseVars, serialVars>>

NextEnrich == FetchKev \/ FetchEpssBatch \/ BuildResult

SpecEnrich == InitEnrich /\ [][NextEnrich]_vars

\* The fetch of the KEV catalog failed in this run
KevFailed ==
    \E k \in 1..Len(fetch_log) : fetch_log[k].feed = "kev" /\ fetch_log[k].kind # "ok"

\* A batch with this id failed, and no batch stored a score for it
EpssFailed(cve) ==
    /\ \E k \in 1..Len(fetch_log) :
          fetch_log[k].feed = "epss" /\ cve \in fetch_log[k].batch /\ fetch_log[k].kind # "ok"
    /\ \A k \in 1..Len(fetch_log) : cve \notin DOMAIN fetch_log[k].stored

\* C15: whatever fails in the fetch of the KEV catalog or of an EPSS batch,
\* SC-02's run does not raise and returns PASS or FAIL, never ERROR; after a
\* failed KEV fetch no finding is marked in_kev, a CVE whose EPSS lookup
\* failed has no exploit probability, and the severity and blocking of
\* each finding are those of _calculate_severity on that missing data.
C15_EnrichmentDegrades ==
    /\ pc # "raised"
    /\ pc = "returned" =>
          /\ sc02_result.status \in {"pass", "fail"}
          /\ Len(sc02_result.findings) = Len(matches)
          /\ \A i \in 1..Len(matches) :
                LET m == matches[i]
                    f == sc02_result.findings[i]
                IN /\ KevFailed => ~f.in_kev
                   /\ EpssFailed(m.cve) => f.epss_score = None
                   /\ (KevFailed /\ EpssFailed(m.cve)) =>
                         LET r == calculate_severity(m.severity, m.cvss, None, FALSE)
                         IN f.severity = r.severity /\ f.blocking = r.is_blocking

\* Both feeds failed for a match of CVSS 7.5: the finding is HIGH and
\* blocking (the fallback for a missing probability) and SC-02 fails.
C15_Witness ==
    /\ pc = "returned"
    /\ KevFailed
    /\ \E i \in 1..Len(matches) :
          /\ EpssFailed(matches[i].cve)
          /\ matches[i].cvss = Some(75)
          /\ sc02_result.findings[i].severity = "high"
          /\ sc02_result.findings[i].blocking
    /\ sc02_result.status = "fail"

(***************************************************************************)
(* SpecContent: scan_bundle with every control, on archives made of a      *)
(* manifest.json and some of the files of ContentPool.  The manifest is    *)
(* the minimal valid one (name, version, one tool with name and            *)
(* description, author, repository), without or with the permissions of    *)
(* _meta.org.mpaktrust.  The actions are those of Spec.                    *)
(***************************************************************************)
\* One of sc03_dependency_pinning.py's LOCK_FILES
LockFile == <<"uv.lock">>

ContentPool == <<LockFile, <<"server.py">>, <<"package.json">>, <<"deps", "lib.py">>>>

ContentManifests == {"object", "object_with_permissions"}

ContentBundles ==
    {[kind |-> "zip",
      entries |-> <<<<"manifest.json">>>> \o SelectSeq(ContentPool, LAMBDA e : e \in S),
      manifest_text |-> m] :
        S \in SUBSET {ContentPool[i] : i \in 1..Len(ContentPool)}, m \in ContentManifests}

InitContent ==
    /\ pc = "start"
    /\ bundle \in ContentBundles
    /\ work_dir = "None"
    /\ controls = ControlsNone
    /\ cleanup = FALSE
    /\ tmp_dir_exists = FALSE
    /\ caller_dir_exists = FALSE
    /\ files = {}
    /\ manifest = Idle
    /\ report = Idle
    /\ controls_to_run = <<>>
    /\ next_i = 0
    /\ invoked = <<>>
    /\ exc = Idle
    /\ control_results = Idle /\ level = 0
    /\ findings = <<>>
    /\ sev_in = Idle /\ sev_out = Idle
    /\ AuxIdle

SpecContent == InitContent /\ [][Next]_vars

\* The archive holds the minimal manifest and a lockfile, and nothing else
MinimalBundle ==
    /\ bundle.entries = <<<<"manifest.json">>, LockFile>>
    /\ bundle.manifest_text = "object"

\* No control reported its external tool as missing or timed out
ToolsAvailable ==
    \A k \in 1..Len(invoked) :
       invoked[k].outcome.kind = "return" =>
          invoked[k].outcome.result # error(invoked[k].control_id)

\* The status of control c in the report
StatusOf(c) == control_statuses(report)[c]

\* C16 as stated: the scan of the minimal manifest with a lockfile, every
\* tool being available, gives PASS for every control required at L1 and
\* a level of L2 or more.
C16_MinimalBundleReachesL2 ==
    (pc = "returned" /\ MinimalBundle /\ ToolsAvailable) =>
        /\ \A c \in RequiredAt(1) : StatusOf(c) = "pass"
        /\ compliance_level(report) >= 2

\* C16 amended: the scan of the minimal manifest with a lockfile gives
\* ERROR for CQ-02, which is required at L1 (no Python or JavaScript file
\* to tell the ecosystem from), no PASS for CD-02, which is required at L2
\* (no permissions declared), and so the level NONE.
C16_MinimalBundleIsNone ==
    (pc = "returned" /\ MinimalBundle) =>
        /\ StoredResults("CQ-02") = {cq02_no_ecosystem}
        /\ "CQ-02" \in RequiredAt(1)
        /\ StatusOf("CD-02") \in {"fail", "error"}
        /\ "CD-02" \in RequiredAt(2)
        /\ compliance_level(report) = 0

\* The minimal bundle was scanned with every tool available; every other
\* control required at L1 passed, and the level is NONE.
C16_Witness ==
    /\ pc = "returned"
    /\ MinimalBundle
    /\ ToolsAvailable
    /\ \A c \in RequiredAt(1) \ {"CQ-02"} : StatusOf(c) = "pass"
    /\ StatusOf("CQ-02") = "error"
    /\ StatusOf("CD-02") = "fail"
    /\ compliance_level(report) = 0

(***************************************************************************)
(* models.py: SecurityReport.to_dict, and the JSON text made of it and     *)
(* parsed back (json.dumps / json.loads, as the CLI and the tests do).     *)
(* A report is [bundle_hash, domains]; domains maps a domain to the        *)
(* results of its controls, in dict order.  Severity, RiskScore and        *)
(* ComplianceLevel are str and int enums: a member is its value.  Of a     *)
(* finding, description, file, line and remediation are left out.          *)
(***************************************************************************)
\* scanner.py, DOMAINS: the order in which scan_bundle makes report.domains
DOMAIN_ORDER ==
    <<"artifact_integrity", "supply_chain", "code_quality", "capability_declaration",
      "provenance">>

RECURSIVE Flatten(_)
Flatten(ss) == IF ss = <<>> THEN <<>> ELSE Head(ss) \o Flatten(Tail(ss))

\* SecurityReport.all_findings
all_findings(rep) ==
    Flatten([i \in 1..Len(DOMAIN_ORDER) |->
        LET rs == rep.domains[DOMAIN_ORDER[i]]
        IN Flatten([j \in 1..Len(rs) |-> rs[j].findings])])

\* ComplianceLevel.name_str
name_str(value) ==
    CASE value = 0 -> "None" [] value = 1 -> "Basic" [] value = 2 -> "Standard"
      [] value = 3 -> "Verified" [] value = 4 -> "Attested" [] OTHER -> "Unknown"

\* The name of the Severity member of a value (Severity.CRITICAL = "critical")
SeverityName(value) ==
    CASE value = "critical" -> "CRITICAL" [] value = "high" -> "HIGH"
      [] value = "medium" -> "MEDIUM" [] value = "low" -> "LOW" [] OTHER -> "INFO"

finding_dict_severity_name(f) ==
    [id |-> f.id, control |-> f.control, severity |-> SeverityName(f.severity),
     title |-> f.title]

\* to_dict, lines 336-348: one entry of "findings"
finding_dict(f) ==
    [id |-> f.id, control |-> f.control, severity |-> f.severity, title |-> f.title]

\* to_dict, lines 310-331: one entry of a domain's "controls"; the key
\* "error" is there only for a truthy error (None stands for no key)
control_dict(r) ==
    [control_id |-> r.control_id,
     status |-> r.status,
     findings |-> [i \in 1..Len(r.findings) |->
                      [id |-> r.findings[i].id, severity |-> r.findings[i].severity,
                       title |-> r.findings[i].title]],
     error |-> IF r.error # None /\ Val(r.error) # "" THEN r.error ELSE None]

\* SecurityReport.to_dict
to_dict(rep) ==
    [bundle |-> [hash |-> rep.bundle_hash],
     compliance |-> [level |-> compliance_level(rep),
                     level_name |-> name_str(compliance_level(rep))],
     risk_score |-> risk_score(all_findings(rep)),
     domains |-> [d \in DOMAIN rep.domains |->
                     [j \in 1..Len(rep.domains[d]) |-> control_dict(rep.domains[d][j])]],
     findings |-> [i \in 1..Len(all_findings(rep)) |-> finding_dict(all_findings(rep)[i])]]

\* JSON text, as the tree of its tokens: a string, a number, null
JStr(x) == <<"string", x>>
JNum(x) == <<"number", x>>
JNull == <<"null">>
JOpt(o) == IF o = None THEN JNull ELSE JStr(Val(o))
\* The value of a token
JValue(t) == t[2]
JOptValue(t) == IF t = JNull THEN None ELSE Some(t[2])

\* json.dumps(report.to_dict())
json_dumps(d) ==
    [bundle |-> [hash |-> JStr(d.bundle.hash)],
     compliance |-> [level |-> JNum(d.compliance.level),
                     level_name |-> JStr(d.compliance.level_name)],
     risk_score |-> JStr(d.risk_score),
     domains |-> [dn \in DOMAIN d.domains |->
                     [j \in 1..Len(d.domains[dn]) |->
                         LET c == d.domains[dn][j] IN
                         [control_id |-> JStr(c.control_id),
                          status |-> JStr(c.status),
                          findings |-> [i \in 1..Len(c.findings) |->
                                           [id |-> JStr(c.findings[i].id),
                                            severity |-> JStr(c.findings[i].severity),
                                            title |-> JStr(c.findings[i].title)]],
                          error |-> JOpt(c.error)]]],
     findings |-> [i \in 1..Len(d.findings) |->
                      [id |-> JStr(d.findings[i].id),
                       control |-> JStr(d.findings[i].control),
                       severity |-> JStr(d.findings[i].severity),
                       title |-> JStr(d.findings[i].title)]]]

\* json.loads(text)
json_loads(t) ==
    [bundle |-> [hash |-> JValue(t.bundle.hash)],
     compliance |-> [level |-> JValue(t.compliance.level),
                     level_name |-> JValue(t.compliance.level_name)],
     risk_score |-> JValue(t.risk_score),
     domains |-> [dn \in DOMAIN t.domains |->
                     [j \in 1..Len(t.domains[dn]) |->
                         LET c == t.domains[dn][j] IN
                         [control_id |-> JValue(c.control_id),
                          status |-> JValue(c.status),
                          findings |-> [i \in 1..Len(c.findings) |->
                                           [id |-> JValue(c.findings[i].id),
                                            severity |-> JValue(c.findings[i].severity),
                                            title |-> JValue(c.findings[i].title)]],
                          error |-> JOptValue(c.error)]]],
     findings |-> [i \in 1..Len(t.findings) |->
                      [id |-> JValue(t.findings[i].id),
                       control |-> JValue(t.findings[i].control),
                       severity |-> JValue(t.findings[i].severity),
                       title |-> JValue(t.findings[i].title)]]]

(***************************************************************************)
(* SpecSerial: a report is drawn, serialized and parsed back.              *)
(***************************************************************************)
MaxReportFindings == 2

\* The findings of a report: control, severity and the fields read by the
\* risk score; the title is told by control and severity
ReportFindings ==
    UNION {{[control |-> c, severity |-> sv, title |-> <<"title of", c, sv>>,
             in_deps |-> (c = "SC-02"), metadata |-> md] :
               sv \in {"critical", "low"}, md \in MetadataOf(c)} :
           c \in {"AI-01", "CQ-01", "SC-02"}}

\* Finding.id: the control's id and a number
WithId(f, n) ==
    [id |-> <<f.control, n>>, control |-> f.control, severity |-> f.severity,
     title |-> f.title, in_deps |-> f.in_deps, metadata |-> f.metadata]

\* The result of control c in a report whose controls pass up to level k:
\* the controls without implementation skip, the others pass where they are
\* required at a level up to k and end with ERROR or FAIL elsewhere
ResultAt(c, k, fs) ==
    [control_id |-> c,
     status |-> IF c \in StubControls THEN "skip"
                ELSE IF \E l \in 1..k : c \in RequiredAt(l) THEN "pass"
                ELSE IF c \in ToolControls THEN "error" ELSE "fail",
     error |-> IF c \in StubControls THEN Some("Not yet implemented")
               ELSE IF (\E l \in 1..k : c \in RequiredAt(l)) \/ c \notin ToolControls THEN None
               ELSE Some("tool not found"),
     raw_output |-> None,
     findings |-> LET ix == SelectSeq([i \in 1..Len(fs) |-> i], LAMBDA i : fs[i].control = c)
                  IN [j \in 1..Len(ix) |-> WithId(fs[ix[j]], ix[j])]]

\* The controls of a domain, in registration order
DomainControls(d) == SelectSeq(get_all, LAMBDA c : ControlDomain(c) = d)

SerialReport(h, k, fs) ==
    [bundle_hash |-> h,
     domains |-> [d \in DOMAINS |->
                     [j \in 1..Len(DomainControls(d)) |-> ResultAt(DomainControls(d)[j], k, fs)]]]

InitSerial ==
    /\ pc = "built"
    /\ BaseIdle
    /\ EnrichIdle
    /\ \E h \in {"sha256:0a", "sha256:0b"}, k \in 0..2 :
          \E fs \in SeqsUpTo(ReportFindings, MaxReportFindings) :
             sreport = SerialReport(h, k, fs)
    /\ wire = Idle
    /\ parsed = Idle

\* json.dumps(report.to_dict())
Dump ==
    /\ pc = "built"
    /\ pc' = "dumped"
    /\ wire' = json_dumps(to_dict(sreport))
    /\ UNCHANGED <<sreport, parsed, baseVars, enrichVars>>

\* json.loads(text)
Load ==
    /\ pc = "dumped"
    /\ pc' = "loaded"
    /\ parsed' = json_loads(wire)
    /\ UNCHANGED <<sreport, wire, baseVars, enrichVars>>

NextSerial == Dump \/ Load

SpecSerial == InitSerial /\ [][NextSerial]_vars

MaxCliFindings == 1

\* --level, type=int: not given, or a level of the help text (1-4)
LevelOptions == {None} \cup {Some(n) : n \in 1..4}

\* -o/--output: not given, or a path
OutputOptions == {None, Some("report.json")}

InitCli ==
    /\ pc = "cli_start"
    /\ ScanIdle
    /\ control_results = Idle /\ level = 0
    /\ findings = <<>>
    /\ sev_in = Idle /\ sev_out = Idle
    /\ EnrichIdle
    /\ SerialIdle
    /\ LoadIdle
    /\ LaterIdle
    /\ output_json \in BOOLEAN
    /\ output \in OutputOptions
    /\ opt_level \in LevelOptions
    /\ cli_level = opt_level
    /\ cli_report = Idle
    /\ report_file = Idle
    /\ exit_code = Idle

cliRest == <<scanVars, levelVars, riskVars, sevVars, enrichVars, serialVars, loadVars, laterVars>>

\* line 38, report = scan_bundle(bundle): a report comes back
CliScan ==
    /\ pc = "cli_start"
    /\ \E k \in 0..2 : \E fs \in SeqsUpTo(ReportFindings, MaxCliFindings) :
          cli_report' = SerialReport("sha256:0a", k, fs)
    /\ pc' = "scanned"
    /\ UNCHANGED <<output_json, output, opt_level, cli_level, report_file, exit_code, cliRest>>

\* line 38: scan_bundle raises; nothing in scan or main catches, the
\* interpreter prints the traceback and exits with status 1
CliScanRaises ==
    /\ pc = "cli_start"
    /\ pc' = "traceback"
    /\ exit_code' = 1
    /\ UNCHANGED <<output_json, output, opt_level, cli_level, cli_report, report_file, cliRest>>

\* lines 40-46: the JSON report goes to the output file or to stdout
OutputJson ==
    /\ pc = "scanned"
    /\ output_json
    /\ report_file' = IF output # None THEN Val(output) ELSE "stdout"
    /\ pc' = "printed"
    /\ UNCHANGED <<output_json, output, opt_level, cli_level, cli_report, exit_code, cliRest>>

\* lines 47-94: the summary is printed; line 57 assigns the report's
\* compliance level to level; the JSON report is saved next to the bundle
\* unless --output was given
OutputHuman ==
    /\ pc = "scanned"
    /\ ~output_json
    /\ cli_level' = Some(compliance_level(cli_report))
    /\ report_file' = IF output = None THEN "bundle.security-report.json" ELSE None
    /\ pc' = "printed"
    /\ UNCHANGED <<output_json, output, opt_level, cli_report, exit_code, cliRest>>

\* lines 96-109
sys_exit ==
    IF cli_level # None /\ compliance_level(cli_report) < Val(cli_level) THEN 1
    ELSE IF risk_score(all_findings(cli_report)) \in {"CRITICAL", "HIGH"} THEN 1
    ELSE 0

Exit ==
    /\ pc = "printed"
    /\ exit_code' = sys_exit
    /\ pc' = "exited"
    /\ UNCHANGED <<output_json, output, opt_level, cli_level, cli_report, report_file, cliRest>>

NextCli == CliScan \/ CliScanRaises \/ OutputJson \/ OutputHuman \/ Exit

SpecCli == InitCli /\ [][NextCli]_vars

\* C18: after a scan that returned a report, the command exits with status
\* 1 when --level N was given and the report's compliance level is below N
\* (in the JSON and in the human-readable mode alike), or when the risk
\* score is CRITICAL or HIGH, and with status 0 in every other case.
C18_ExitStatus ==
    pc = "exited" =>
        exit_code =
            IF \/ opt_level # None /\ compliance_level(cli_report) < Val(opt_level)
               \/ risk_score(all_findings(cli_report)) \in {"CRITICAL", "HIGH"}
            THEN 1 ELSE 0

(***************************************************************************)
(* sdk-python, client.py: MpakClient.load_bundle_from_url, with            *)
(* _integrity.py.  A string of hexadecimal digits is the sequence of its   *)
(* characters.  SpecLoad: the response of the URL and the expected hash    *)
(* are drawn; the call downloads, verifies, extracts and reads the         *)
(* manifest.                                                               *)
(***************************************************************************)
\* str.lower(), one character
LowerChar(c) ==
    CASE c = "A" -> "a" [] c = "B" -> "b" [] c = "C" -> "c" [] c = "D" -> "d"
      [] c = "E" -> "e" [] c = "F" -> "f" [] OTHER -> c

\* str.lower()
lower(str) == [i \in 1..Len(str) |-> LowerChar(str[i])]

\* _integrity.py, compute_sha256: the hexdigest of the file's bytes, in
\* lower case
compute_sha256(file) == file.sha256

verify_integrity_no_raise(file, expected) == "ok"

\* _integrity.py, verify_integrity: returns, or raises MpakIntegrityError
verify_integrity(file, expected) ==
    IF lower(compute_sha256(file)) # lower(expected) THEN "MpakIntegrityError" ELSE "ok"

\* What the GET of the URL brings: a request error, an error status, a
\* body that is not a zip archive, and the archives
Responses ==
    {[kind |-> k, entries |-> <<>>, manifest_text |-> "none", sha256 |-> <<"a", "1">>] :
        k \in {"request_error", "http_error", "not_zip"}}
    \cup UNION {{[kind |-> "zip", entries |-> es, manifest_text |-> m, sha256 |-> <<"a", "1">>] :
                    m \in IF manifest_exists(extractall(es)) THEN ManifestTexts ELSE {"none"}} :
                es \in SeqsUpTo(EntryNames, MaxEntries)}

\* expected_sha256: None, the empty string, the digest of the file in lower
\* and in upper case, another digest
ExpectedHashes ==
    {None, Some(<<>>), Some(<<"a", "1">>), Some(<<"A", "1">>), Some(<<"b", "2">>),
     Some(<<"B", "2">>)}

InitLoad ==
    /\ pc = "load_start"
    /\ ScanIdle
    /\ control_results = Idle /\ level = 0
    /\ findings = <<>>
    /\ sev_in = Idle /\ sev_out = Idle
    /\ EnrichIdle
    /\ SerialIdle
    /\ CliIdle
    /\ LaterIdle
    /\ response \in Responses
    /\ expected_sha256 \in ExpectedHashes
    /\ bundle_file = FALSE
    /\ dest_files = {}
    /\ load_exc = None
    /\ load_manifest = Idle

loadRest == <<scanVars, levelVars, riskVars, sevVars, enrichVars, serialVars, cliVars, laterVars>>

\* lines 184-204: the body is streamed into dest/bundle.mcpb.  An error
\* status raises httpx.HTTPStatusError before the file is opened; a request
\* error removes the file and raises MpakNetworkError.
Download ==
    /\ pc = "load_start"
    /\ IF response.kind = "http_error"
       THEN pc' = "load_raised" /\ load_exc' = Some("HTTPStatusError") /\ bundle_file' = FALSE
       ELSE IF response.kind = "request_error"
       THEN pc' = "load_raised" /\ load_exc' = Some("MpakNetworkError") /\ bundle_file' = FALSE
       ELSE pc' = "downloaded" /\ load_exc' = load_exc /\ bundle_file' = TRUE
    /\ UNCHANGED <<response, expected_sha256, dest_files, load_manifest, loadRest>>

\* lines 206-217: if expected_sha256: verify_integrity(...), and on any
\* exception bundle_path.unlink() and raise
Verify ==
    /\ pc = "downloaded"
    /\ IF expected_sha256 # None /\ Val(expected_sha256) # <<>>
          /\ verify_integrity(response, Val(expected_sha256)) # "ok"
       THEN /\ pc' = "load_raised"
            /\ load_exc' = Some(verify_integrity(response, Val(expected_sha256)))
            /\ bundle_file' = FALSE
       ELSE /\ pc' = "verified"
            /\ UNCHANGED <<load_exc, bundle_file>>
    /\ UNCHANGED <<response, expected_sha256, dest_files, load_manifest, loadRest>>

\* lines 219-225: zipfile.ZipFile(bundle_path).extractall(dest_path), then
\* bundle_path.unlink()
Extract ==
    /\ pc = "verified"
    /\ IF response.kind = "not_zip"
       THEN /\ pc' = "load_raised"
            /\ load_exc' = Some("BadZipFile")
            /\ UNCHANGED <<dest_files, bundle_file>>
       ELSE /\ pc' = "extracted"
            /\ dest_files' = extractall(response.entries)
            /\ bundle_file' = FALSE
            /\ UNCHANGED load_exc
    /\ UNCHANGED <<response, expected_sha256, load_manifest, loadRest>>

\* lines 227-234: the manifest is read, parsed, printed and returned
ParseManifest ==
    /\ pc = "extracted"
    /\ LET raised ==
             IF ~manifest_exists(dest_files) THEN Some("FileNotFoundError")
             ELSE CASE response.manifest_text = "undecodable" -> Some("UnicodeDecodeError")
                    [] response.manifest_text = "invalid_json" -> Some("JSONDecodeError")
                    [] response.manifest_text = "non_object" -> Some("TypeError")
                    [] response.manifest_text = "empty_object" -> Some("KeyError")
                    [] OTHER -> None
       IN IF raised # None
          THEN pc' = "load_raised" /\ load_exc' = raised /\ UNCHANGED load_manifest
          ELSE pc' = "load_returned" /\ load_manifest' = response.manifest_text
               /\ UNCHANGED load_exc
    /\ UNCHANGED <<response, expected_sha256, bundle_file, dest_files, loadRest>>

NextLoad == Download \/ Verify \/ Extract \/ ParseManifest

SpecLoad == InitLoad /\ [][NextLoad]_vars

\* The archive has an entry whose path leaves the destination directory
HasEscapingEntry(resp) ==
    resp.kind = "zip" /\ \E i \in 1..Len(resp.entries) : Escapes(resp.entries[i])

\* C19: when the downloaded archive has an entry whose path escapes the
\* destination directory, the call raises ValueError before it extracts
\* any entry, and no file is created outside the destination.
C19_ZipSlipRejected ==
    (HasEscapingEntry(response) /\ pc \in {"extracted", "load_returned", "load_raised"}
       /\ load_exc \notin {Some("MpakIntegrityError")})
    => /\ load_exc = Some("ValueError")
       /\ dest_files = {}

\* The integrity check of the call is over
PastVerify ==
    \/ pc \in {"verified", "extracted", "load_returned"}
    \/ pc = "load_raised"
          /\ load_exc \notin {Some("HTTPStatusError"), Some("MpakNetworkError")}

\* expected_sha256 differs, ignoring case, from the digest of the file
Mismatch(expected) == lower(expected) # lower(compute_sha256(response))

\* C20, as stated: whenever expected_sha256 is given (is not None) and
\* differs, ignoring case, from the SHA-256 of the downloaded file, the
\* call raises MpakIntegrityError, the downloaded file is deleted and no
\* entry is extracted.
C20_FailClosedWhenGiven ==
    (PastVerify /\ expected_sha256 # None /\ Mismatch(Val(expected_sha256)))
    => /\ load_exc = Some("MpakIntegrityError")
       /\ ~bundle_file
       /\ dest_files = {}

\* C20, amended: whenever expected_sha256 is a non-empty string that
\* differs, ignoring case, from the SHA-256 of the downloaded file, the
\* call raises MpakIntegrityError, the downloaded file is deleted and no
\* entry is extracted; entries are extracted only when the expected hash
\* is None or empty or equals the file's SHA-256, ignoring case.
C20_FailClosedWhenNonEmpty ==
    /\ (PastVerify /\ expected_sha256 # None /\ Val(expected_sha256) # <<>>
          /\ Mismatch(Val(expected_sha256)))
       => /\ load_exc = Some("MpakIntegrityError")
          /\ ~bundle_file
          /\ dest_files = {}
    /\ (pc # "load_start" /\ dest_files # {})
       => \/ expected_sha256 = None
          \/ Val(expected_sha256) = <<>>
          \/ ~Mismatch(Val(expected_sha256))

\* A downloaded archive with entries was refused for a hash that is not
\* its own, the file is gone and nothing was extracted.
C20_Witness ==
    /\ pc = "load_raised"
    /\ load_exc = Some("MpakIntegrityError")
    /\ response.kind = "zip" /\ response.entries # <<>>
    /\ expected_sha256 = Some(<<"B", "2">>)
    /\ ~bundle_file
    /\ dest_files = {}

(***************************************************************************)
(* sdk-python, loader.py: main(), the mpak-loader entry point.  An         *)
(* exception on its way is <<name>>, SystemExit is <<"SystemExit", code>>. *)
(***************************************************************************)
SystemExit(code) == <<"SystemExit", code>>

\* sys.argv[1]: a package, a package with a version, a URL
Sources == {"@scope/name", "@scope/name@1.2.3", "https://cdn.example.com/b.mcpb"}

\* sys.argv: the program's name and up to three arguments
Argvs ==
    {<<"mpak-loader">>}
    \cup {<<"mpak-loader", src>> : src \in Sources}
    \cup {<<"mpak-loader", src, "/dest">> : src \in Sources}
    \cup {<<"mpak-loader", src, "/dest", sha>> : src \in Sources, sha \in {"a1", "b2"}}

\* source.startswith("@")
StartsWithAt(src) == src \in {"@scope/name", "@scope/name@1.2.3"}

\* lines 33-36: source and version of a package name
PackageAndVersion(src) ==
    IF src = "@scope/name@1.2.3" THEN <<"@scope/name", "1.2.3">> ELSE <<src, "latest">>

\* What client.load_bundle and client.load_bundle_from_url raise
LoadExceptions ==
    {"MpakNotFoundError", "MpakNetworkError", "MpakIntegrityError", "ValueError",
     "FileNotFoundError", "BadZipFile"}

\* The manifests they return
LoadedManifests == {"manifest of 1.0.0", "manifest of 1.2.3"}

InitLoader ==
    /\ pc = "main_start"
    /\ OldIdle
    /\ RaceIdle
    /\ ControlsIdle
    /\ ProcessIdle
    /\ JobIdle
    /\ argv \in Argvs
    /\ client = Idle
    /\ close_calls = 0
    /\ load_call = Idle
    /\ load_outcome = Idle
    /\ raising = None

loaderRest == <<oldVars, raceVars, controlVars, processVars, jobVars>>

\* lines 20-22: too few arguments: usage, sys.exit(1), outside the try
CheckArgv ==
    /\ pc = "main_start"
    /\ IF Len(argv) < 3
       THEN pc' = "main_left" /\ raising' = SystemExit(1)
       ELSE pc' = "try" /\ UNCHANGED raising
    /\ UNCHANGED <<argv, client, close_calls, load_call, load_outcome, loaderRest>>

\* line 29, client = MpakClient(): the client, or an exception
Construct ==
    /\ pc = "try"
    /\ \/ client' = <<"MpakClient">> /\ pc' = "dispatch" /\ UNCHANGED raising
       \/ UNCHANGED client /\ pc' = "except" /\ raising' = <<"RuntimeError">>
    /\ UNCHANGED <<argv, close_calls, load_call, load_outcome, loaderRest>>

\* lines 32-43: client.load_bundle for a package, client.load_bundle_from_url
\* for a URL; the call returns a manifest or raises
LoadBundle ==
    /\ pc = "dispatch"
    /\ load_call' =
          IF StartsWithAt(argv[2])
          THEN <<"load_bundle", PackageAndVersion(argv[2])[1], argv[3],
                 PackageAndVersion(argv[2])[2]>>
          ELSE <<"load_bundle_from_url", argv[2], argv[3],
                 IF Len(argv) > 3 THEN Some(argv[4]) ELSE None>>
    /\ \/ \E m \in LoadedManifests :
             load_outcome' = <<"returned", m>> /\ pc' = "print" /\ UNCHANGED raising
       \/ \E e \in LoadExceptions :
             load_outcome' = <<"raised", e>> /\ pc' = "except" /\ raising' = <<e>>
    /\ UNCHANGED <<argv, client, close_calls, loaderRest>>

\* lines 46-47: the manifest is printed, sys.exit(0); SystemExit is no
\* Exception and passes the except clause
PrintAndExit ==
    /\ pc = "print"
    /\ raising' = SystemExit(0)
    /\ pc' = "finally"
    /\ UNCHANGED <<argv, client, close_calls, load_call, load_outcome, loaderRest>>

\* lines 49-51: except Exception: the error is printed, sys.exit(1)
Except ==
    /\ pc = "except"
    /\ raising' = SystemExit(1)
    /\ pc' = "finally"
    /\ UNCHANGED <<argv, client, close_calls, load_call, load_outcome, loaderRest>>

\* lines 52-53, finally: client.close().  The name client is read: unbound,
\* the read raises UnboundLocalError (a NameError), which replaces the
\* exception on its way.
finally_close(bound, exception) ==
    IF bound THEN [closes |-> TRUE, raising |-> exception]
    ELSE [closes |-> FALSE, raising |-> <<"UnboundLocalError">>]

Finally ==
    /\ pc = "finally"
    /\ LET f == finally_close(client # Idle, raising) IN
          /\ close_calls' = IF f.closes THEN close_calls + 1 ELSE close_calls
          /\ raising' = f.raising
    /\ pc' = "main_left"
    /\ UNCHANGED <<argv, client, load_call, load_outcome, loaderRest>>

NextLoader == CheckArgv \/ Construct \/ LoadBundle \/ PrintAndExit \/ Except \/ Finally

SpecLoader == InitLoader /\ [][NextLoader]_vars

\* C21: main() ends with SystemExit on every path: with code 1 and no
\* NameError when the construction of the client failed; and when the
\* client was constructed, close() was called exactly once, after a load
\* that returned and after a load that raised (then with code 1).
C21_ExitsAndClosesSafely ==
    pc = "main_left" =>
        /\ raising[1] = "SystemExit"
        /\ (Len(argv) >= 3 /\ client = Idle) => raising = SystemExit(1)
        /\ client # Idle => close_calls = 1
        /\ (load_outcome # Idle /\ load_outcome[1] = "raised") => raising = SystemExit(1)

(***************************************************************************)
(* sc02_vuln_scan.py, fetch_kev_catalog, lines 40-59, run by two threads   *)
(* on an empty cache.  One step per access to the global _kev_cache and    *)
(* one for the request to the feed.                                        *)
(***************************************************************************)
Threads == {1, 2}

InitRace ==
    /\ pc = "race"
    /\ OldIdle
    /\ LoaderIdle
    /\ ControlsIdle
    /\ ProcessIdle
    /\ JobIdle
    /\ tpc = [t \in Threads |-> "check"]
    /\ fetched = [t \in Threads |-> None]
    /\ returned = [t \in Threads |-> None]

raceRest ==
    <<pc, matches, kev_catalog, epss_scores, batch_i, fetch_log, sc02_result, scanVars,
      levelVars, riskVars, sevVars, serialVars, cliVars, loadVars, loaderVars, controlVars,
      processVars, jobVars>>

\* line 43: if _kev_cache is not None
CheckCache(t) ==
    /\ tpc[t] = "check"
    /\ tpc' = [tpc EXCEPT ![t] = IF kev_cache # None THEN "return" ELSE "fetch"]
    /\ UNCHANGED <<kev_cache, fetched, returned, raceRest>>

\* lines 46-54 and 56-58: the request; the set of the ids of the catalog,
\* or set() after any exception
FetchCatalog(t) ==
    /\ tpc[t] = "fetch"
    /\ \E o \in KevOutcomes :
          fetched' = [fetched EXCEPT ![t] = Some(fetch_kev_catalog(None, o).catalog)]
    /\ tpc' = [tpc EXCEPT ![t] = "store"]
    /\ UNCHANGED <<kev_cache, returned, raceRest>>

\* lines 53 and 57: _kev_cache = ...
StoreCache(t) ==
    /\ tpc[t] = "store"
    /\ kev_cache' = fetched[t]
    /\ tpc' = [tpc EXCEPT ![t] = "return"]
    /\ UNCHANGED <<fetched, returned, raceRest>>

\* lines 44, 54 and 58: return _kev_cache, a read of the global
ReturnCache(t) ==
    /\ tpc[t] = "return"
    /\ returned' = [returned EXCEPT ![t] = kev_cache]
    /\ tpc' = [tpc EXCEPT ![t] = "done"]
    /\ UNCHANGED <<kev_cache, fetched, raceRest>>

NextRace ==
    \E t \in Threads : CheckCache(t) \/ FetchCatalog(t) \/ StoreCache(t) \/ ReturnCache(t)

SpecRace == InitRace /\ [][NextRace]_vars

\* What a sequential execution in which thread t calls first leaves: t
\* fetches and stores, the other call finds the cache set
SequentialFrom(t) ==
    /\ fetched[t] # None
    /\ kev_cache = fetched[t]
    /\ \A u \in Threads : returned[u] = fetched[t]

\* C22: when both callers have returned, the cache and the set returned to
\* each caller are those of a sequential execution of the two calls with
\* the same answers of the feed.
C22_RaceIsBenign ==
    (\A t \in Threads : tpc[t] = "done") => \E t \in Threads : SequentialFrom(t)

(***************************************************************************)
(* The controls that run an external tool: sc01_sbom.py, sc02_vuln_scan.py,*)
(* cq01_secrets.py, cq02_malicious.py, cq03_static_analysis.py, each from  *)
(* the call of subprocess.run on, and the engine around them (scanner.py,  *)
(* lines 180-202).  Here a ControlResult has its duration_ms.  The bundle  *)
(* has server code in Python, so that CQ-02 and CQ-03 reach their tool.    *)
(***************************************************************************)
MaxElapsed == 2

\* What subprocess.run does: FileNotFoundError ("missing"), TimeoutExpired
\* ("timeout"), or the process exits.  stdout is empty, text that is not
\* JSON, a JSON list, the tool's report without a blocking entry ("clean")
\* or with one ("blocking").
ToolRuns ==
    {[kind |-> k, returncode |-> 0, stdout |-> "empty", stderr |-> ""] :
        k \in {"missing", "timeout"}}
    \cup {[kind |-> "exited", returncode |-> rc, stdout |-> so, stderr |-> se] :
             rc \in {0, 1}, so \in {"empty", "not_json", "json_list", "clean", "blocking"},
             se \in {"", "tool failed"}}

\* models.py, ControlResult(control_id, control_name, status, error=None,
\* duration_ms=0)
TimedResult(c, status, err, duration_ms) ==
    [control_id |-> c, status |-> status, error |-> err, duration_ms |-> duration_ms]

\* base.py, Control.error(message): duration_ms is not passed
control_error(c, message) == TimedResult(c, "error", Some(message), 0)

Ret(r) == [kind |-> "return", result |-> r, message |-> ""]
Exc(message) == [kind |-> "raise", result |-> Idle, message |-> message]

\* x or default, for strings
Or(x, default) == IF x # "" THEN x ELSE default

\* sc01_sbom.py, SC01SbomGeneration.run
sc01_run(t, d) ==
    IF t.kind = "missing" THEN Ret(control_error("SC-01", "syft not found"))
    ELSE IF t.kind = "timeout" THEN Ret(control_error("SC-01", "SBOM generation timed out"))
    ELSE IF t.returncode # 0
    THEN Ret(TimedResult("SC-01", "fail", Some(Or(t.stderr, "SBOM generation failed")), d))
    ELSE IF t.stdout \in {"empty", "not_json"}
    THEN Ret(TimedResult("SC-01", "fail", Some("Failed to parse SBOM"), d))
    ELSE IF t.stdout = "json_list" THEN Exc("'list' object has no attribute 'get'")
    ELSE Ret(TimedResult("SC-01", "pass", None, d))

\* sc02_vuln_scan.py, SC02VulnerabilityScan.run: the feeds change the
\* severities of the findings (fetch_kev_catalog, fetch_epss_scores return
\* empty data when down); a "blocking" report has a match that blocks by
\* its CVSS score alone
sc02_run(t, f, d) ==
    IF t.kind = "missing" THEN Ret(control_error("SC-02", "grype not found"))
    ELSE IF t.kind = "timeout" THEN Ret(control_error("SC-02", "Vulnerability scan timed out"))
    ELSE IF t.returncode # 0 /\ t.stdout = "empty"
    THEN Ret(TimedResult("SC-02", "fail", Some(Or(t.stderr, "Vulnerability scan failed")), d))
    ELSE IF t.stdout = "not_json"
    THEN Ret(TimedResult("SC-02", "fail", Some("Failed to parse vulnerability results"), d))
    ELSE IF t.stdout = "json_list" THEN Exc("'list' object has no attribute 'get'")
    ELSE Ret(TimedResult("SC-02", IF t.stdout = "blocking" THEN "fail" ELSE "pass", None, d))

\* cq01_secrets.py, CQ01NoEmbeddedSecrets.run: a line that is not JSON is
\* passed over, a line that is a JSON list has no get
cq01_run(t, d) ==
    IF t.kind = "missing" THEN Ret(control_error("CQ-01", "trufflehog not found"))
    ELSE IF t.kind = "timeout" THEN Ret(control_error("CQ-01", "Secret scanning timed out"))
    ELSE IF t.stdout = "json_list" THEN Exc("'list' object has no attribute 'get'")
    ELSE Ret(TimedResult("CQ-01", IF t.stdout = "blocking" THEN "fail" ELSE "pass", None, d))

\* cq02_malicious.py, CQ02NoMaliciousPatterns.run, lines 90-169
cq02_run(t, d) ==
    IF t.kind = "missing" THEN Ret(control_error("CQ-02", "Python interpreter not found"))
    ELSE IF t.kind = "timeout"
    THEN Ret(control_error("CQ-02", "Malicious pattern scan timed out"))
    ELSE Ret(TimedResult("CQ-02", IF t.stdout = "blocking" THEN "fail" ELSE "pass", None, d))

\* cq03_static_analysis.py, CQ03StaticAnalysis.run with _run_bandit: a
\* missing bandit gives an INFO finding, a timeout a MEDIUM finding, and
\* the status is FAIL only for a HIGH finding in server code
cq03_run(t, d) ==
    IF t.kind \in {"missing", "timeout"} THEN Ret(TimedResult("CQ-03", "pass", None, d))
    ELSE IF t.stdout = "json_list" THEN Exc("'list' object has no attribute 'get'")
    ELSE Ret(TimedResult("CQ-03", IF t.stdout = "blocking" THEN "fail" ELSE "pass", None, d))

\* control.run(extract_dir, manifest)
control_run(c, t, f, d) ==
    CASE c = "SC-01" -> sc01_run(t, d)
      [] c = "SC-02" -> sc02_run(t, f, d)
      [] c = "CQ-01" -> cq01_run(t, d)
      [] c = "CQ-02" -> cq02_run(t, d)
      [] OTHER -> cq03_run(t, d)

\* scanner.py, lines 184-193: the result, or for an exception the
\* engine's ControlResult with status ERROR and error=str(e)
engine_result(c, out) ==
    IF out.kind = "raise" THEN TimedResult(c, "error", Some(out.message), 0)
    ELSE out.result

InitControlsSpec ==
    /\ pc = "control_start"
    /\ OldIdle
    /\ LoaderIdle
    /\ RaceIdle
    /\ ProcessIdle
    /\ JobIdle
    /\ ctl \in {"SC-01", "SC-02", "CQ-01", "CQ-02", "CQ-03"}
    /\ tool \in ToolRuns
    /\ feeds \in IF ctl = "SC-02" THEN {"up", "down"} ELSE {"up"}
    /\ elapsed \in 1..MaxElapsed
    /\ run_out = Idle
    /\ in_report = Idle

controlsRest == <<oldVars, loaderVars, raceVars, processVars, jobVars>>

\* line 185: result = control.run(extract_dir, manifest)
ControlRun ==
    /\ pc = "control_start"
    /\ run_out' = control_run(ctl, tool, feeds, elapsed)
    /\ pc' = "control_ran"
    /\ UNCHANGED <<ctl, tool, feeds, elapsed, in_report, controlsRest>>

\* lines 186-202: the result goes into the report, the loop goes on
StoreResult ==
    /\ pc = "control_ran"
    /\ in_report' = engine_result(ctl, run_out)
    /\ pc' = "control_stored"
    /\ UNCHANGED <<ctl, tool, feeds, elapsed, run_out, controlsRest>>

NextControls == ControlRun \/ StoreResult

SpecControls == InitControlsSpec /\ [][NextControls]_vars

\* The control's binary is missing or timed out, or its feeds are down
ToolUnavailable ==
    tool.kind \in {"missing", "timeout"} \/ (ctl = "SC-02" /\ feeds = "down")

\* C23: a control whose external tool (binary or network feed) is missing
\* or timed out ends with status ERROR or SKIP, never PASS or FAIL, for
\* SC-01, SC-02, CQ-01, CQ-02 and CQ-03.
C23_ToolFailureIsError ==
    (pc = "control_stored" /\ ToolUnavailable) => in_report.status \in {"error", "skip"}

\* C24: in a ControlResult of the report the error message is set if and
\* only if the status is SKIP or ERROR, and is then not empty.
C24_ErrorIffSkipOrError ==
    pc = "control_stored" =>
        /\ in_report.error # None <=> in_report.status \in {"skip", "error"}
        /\ in_report.error # None => Val(in_report.error) # ""

\* C26: the ControlResult in the report has the duration of the control's
\* run, whatever the outcome.
C26_DurationRecorded ==
    pc = "control_stored" => in_report.duration_ms = elapsed

(***************************************************************************)
(* What a scan leaves in its process and what a later scan reads of it:    *)
(* the registry (base.py, ControlRegistry), _kev_cache (sc02_vuln_scan.py) *)
(* and _mcpb_schema (schemas.py).  SpecProcess: of two processes one runs  *)
(* earlier scans, then each runs the same scan with the same answers of    *)
(* the network.                                                            *)
(***************************************************************************)
MaxEarlier == 1
MaxScanMatches == 1

\* The fresh process runs the last scan right after import, the used one
\* after its earlier scans
Processes == {"fresh", "used"}
Used == "used"

\* schemas.py, get_mcpb_schema: the memoized schema, else the fetched one,
\* else the fallback
get_mcpb_schema(cache, answer) ==
    IF cache # None THEN Val(cache)
    ELSE IF answer = "ok" THEN "fetched schema" ELSE "fallback schema"

\* The network during one scan: the KEV feed and the schema server
Networks == {[kev |-> o, schema |-> a] : o \in KevOutcomes, a \in {"ok", "unreachable"}}

\* The process after import: the registered controls, empty caches
FreshProcess == [registry |-> get_all, kev_cache |-> None, mcpb_schema |-> None]

\* scan_bundle in a process with globals g: the controls come from a copy
\* of the registry (get_all), AI-01 validates against get_mcpb_schema(),
\* SC-02 builds its findings with fetch_kev_catalog()
scan_in_process(g, ms, net) ==
    LET catalog == fetch_kev_catalog(g.kev_cache, net.kev).catalog
        schema == get_mcpb_schema(g.mcpb_schema, net.schema)
    IN [globals |-> [registry |-> g.registry, kev_cache |-> Some(catalog),
                     mcpb_schema |-> Some(schema)],
        result |-> [controls |-> g.registry,
                    schema |-> schema,
                    sc02 |-> [i \in 1..Len(ms) |-> Enrich(ms[i], catalog, EmptyDict)]]]

InitProcess ==
    /\ pc = "processes"
    /\ OldIdle
    /\ LoaderIdle
    /\ RaceIdle
    /\ ControlsIdle
    /\ JobIdle
    /\ proc = [p \in Processes |-> FreshProcess]
    /\ earlier = [p \in Processes |-> 0]
    /\ \E ms \in SeqsUpTo(Matches, MaxScanMatches), net \in Networks :
          the_scan = [matches |-> ms, network |-> net]
    /\ last_report = [p \in Processes |-> None]

processRest == <<pc, oldVars, loaderVars, raceVars, controlVars, jobVars>>

\* An earlier scan in the used process, on any network; what Grype
\* reports in it does not reach the globals
EarlierScan ==
    /\ last_report[Used] = None
    /\ earlier[Used] < MaxEarlier
    /\ \E net \in Networks :
          proc' = [proc EXCEPT ![Used] = scan_in_process(proc[Used], <<>>, net).globals]
    /\ earlier' = [earlier EXCEPT ![Used] = earlier[Used] + 1]
    /\ UNCHANGED <<the_scan, last_report, processRest>>

\* The last scan in process p
LastScan(p) ==
    /\ last_report[p] = None
    /\ LET r == scan_in_process(proc[p], the_scan.matches, the_scan.network) IN
          /\ proc' = [proc EXCEPT ![p] = r.globals]
          /\ last_report' = [last_report EXCEPT ![p] = Some(r.result)]
    /\ UNCHANGED <<earlier, the_scan, processRest>>

NextProcess == EarlierScan \/ \E p \in Processes : LastScan(p)

SpecProcess == InitProcess /\ [][NextProcess]_vars

\* C25: whatever scans a process ran before, the same scan with the same
\* answers of the network gives the result it gives in a process that ran
\* none, and no scan changes the registry.
C25_ScanIsStateless ==
    /\ \A p \in Processes : proc[p].registry = get_all
    /\ (\A p \in Processes : last_report[p] # None) => last_report["fresh"] = last_report[Used]

(***************************************************************************)
(* The order of the risk scores, on SpecRisk                               *)
(***************************************************************************)
\* NONE < LOW < MEDIUM < HIGH < CRITICAL
RiskRank(score) ==
    CASE score = "NONE" -> 0 [] score = "LOW" -> 1 [] score = "MEDIUM" -> 2
      [] score = "HIGH" -> 3 [] OTHER -> 4

\* C27: the risk score of a report is never below the score of the report
\* without one of its findings: adding a finding, to any control and at
\* any place, never lowers the score, and removing one never raises it.
C27_RiskScoreMonotone ==
    \A pos \in 1..Len(findings) :
        RiskRank(risk_score(RemoveAt(findings, pos))) <= RiskRank(Score)

\* A report of a MEDIUM finding and a HIGH CQ-07 finding is CRITICAL,
\* without the second it is MEDIUM, without the first still CRITICAL.
C27_Witness ==
    /\ Len(findings) = 2
    /\ findings[1].severity = "medium" /\ findings[1].control = "AI-01"
    /\ findings[2].severity = "high" /\ findings[2].control = "CQ-07"
    /\ Score = "CRITICAL"
    /\ risk_score(RemoveAt(findings, 2)) = "MEDIUM"
    /\ risk_score(RemoveAt(findings, 1)) = "CRITICAL"


(***************************************************************************)
(* SpecVuln: SC02VulnerabilityScan.run as a whole, from the call of Grype  *)
(* to the ControlResult with its findings (sc02_vuln_scan.py, lines        *)
(* 139-269).  The feeds are taken by what fetch_kev_catalog and            *)
(* fetch_epss_scores return: a set of ids and a dict of scores.            *)
(***************************************************************************)
\* subprocess.run(["grype", ...]): FileNotFoundError, TimeoutExpired, or an
\* exit with stdout empty, text that is not JSON, a JSON list, or Grype's
\* report (a dict with "matches")
GrypeRuns ==
    {[kind |-> k, returncode |-> 0, stdout |-> "empty", stderr |-> ""] :
        k \in {"missing", "timeout"}}
    \cup {[kind |-> "exited", returncode |-> rc, stdout |-> so, stderr |-> se] :
             rc \in {0, 1}, so \in {"empty", "not_json", "json_list", "report"},
             se \in {"", "grype failed", "no packages discovered"}}

\* ControlResult(control_id="SC-02", status, findings=[], error=None)
VulnResult(status, fs, err) == [status |-> status, findings |-> fs, error |-> err]

InitVuln ==
    /\ pc = "grype"
    /\ ScanIdle
    /\ control_results = Idle /\ level = 0
    /\ findings = <<>>
    /\ sev_in = Idle /\ sev_out = Idle
    /\ SerialIdle /\ CliIdle /\ LoadIdle
    /\ LoaderIdle /\ RaceIdle /\ ProcessIdle /\ JobIdle
    /\ ctl = Idle /\ feeds = Idle /\ elapsed = 0 /\ run_out = Idle /\ in_report = Idle
    /\ kev_cache = Idle /\ batch_i = 0 /\ fetch_log = <<>>
    /\ tool \in GrypeRuns
    /\ matches \in IF tool.stdout = "report" THEN SeqsUpTo(Matches, MaxMatches) ELSE {<<>>}
    /\ kev_catalog = Idle
    /\ epss_scores = Idle
    /\ sc02_result = Idle

vulnRest ==
    <<scanVars, levelVars, riskVars, sevVars, serialVars, cliVars, loadVars, loaderVars,
      raceVars, processVars, jobVars, ctl, feeds, elapsed, run_out, in_report, kev_cache, batch_i,
      fetch_log, tool, matches>>

\* lines 143-166: Grype is missing or times out (self.error), or exits
\* non-zero without output and without "no packages discovered" (FAIL)
RunGrype ==
    /\ pc = "grype"
    /\ IF tool.kind = "missing"
       THEN sc02_result' = VulnResult("error", <<>>, Some("grype not found")) /\ pc' = "returned"
       ELSE IF tool.kind = "timeout"
       THEN /\ sc02_result' = VulnResult("error", <<>>, Some("Vulnerability scan timed out"))
            /\ pc' = "returned"
       ELSE IF /\ tool.returncode # 0
               /\ tool.stderr # "no packages discovered"
               /\ tool.stdout = "empty"
       THEN /\ sc02_result' =
                  VulnResult("fail", <<>>, Some(Or(tool.stderr, "Vulnerability scan failed")))
            /\ pc' = "returned"
       ELSE sc02_result' = sc02_result /\ pc' = "parse"
    /\ UNCHANGED <<kev_catalog, epss_scores, vulnRest>>

\* lines 168-182: json.loads(result.stdout), or {"matches": []} for an
\* empty stdout; data.get on a list raises AttributeError, which run does
\* not catch; then the two feeds are read
ParseOutput ==
    /\ pc = "parse"
    /\ IF tool.stdout = "not_json"
       THEN /\ sc02_result' =
                  VulnResult("fail", <<>>, Some("Failed to parse vulnerability results"))
            /\ pc' = "returned"
            /\ UNCHANGED <<kev_catalog, epss_scores>>
       ELSE IF tool.stdout = "json_list"
       THEN pc' = "raised" /\ UNCHANGED <<sc02_result, kev_catalog, epss_scores>>
       ELSE /\ pc' = "build"
            /\ kev_catalog' \in SUBSET CveIds
            /\ epss_scores' \in PartialFunctions({m.cve : m \in {matches[i] : i \in 1..Len(matches)}} \cap CveIds, EpssValues)
            /\ UNCHANGED sc02_result
    /\ UNCHANGED vulnRest

\* lines 184-260: one finding per match, has_blocking, the status
BuildFindings ==
    /\ pc = "build"
    /\ pc' = "returned"
    /\ sc02_result' =
          LET fs == [i \in 1..Len(matches) |-> Enrich(matches[i], kev_catalog, epss_scores)]
          IN VulnResult(IF \E i \in 1..Len(fs) : fs[i].blocking THEN "fail" ELSE "pass",
                        fs, None)
    /\ UNCHANGED <<kev_catalog, epss_scores, vulnRest>>

NextVuln == RunGrype \/ ParseOutput \/ BuildFindings

SpecVuln == InitVuln /\ [][NextVuln]_vars

\* The severities that block
Blocks(severity) == severity \in {"critical", "high"}

\* C28, first part, on SpecSeverity: for every input of _calculate_severity
\* the blocking flag is true exactly when the severity is CRITICAL or HIGH.
C28_BlockingIffHighOrCritical ==
    pc = "returned" /\ sev_out # Idle => (sev_out.is_blocking <=> Blocks(sev_out.severity))

\* C28: when SC-02's run has returned, every finding blocks exactly when its
\* severity is CRITICAL or HIGH, and the status is FAIL if and only if at
\* least one finding is blocking; a result that is neither FAIL nor the
\* ERROR of a missing or timed-out Grype is PASS.
C28_FailIffBlocking ==
    pc = "returned" /\ sc02_result # Idle /\ tool # Idle =>
        LET fs == sc02_result.findings
            has_blocking == \E i \in 1..Len(fs) : fs[i].blocking
        IN /\ \A i \in 1..Len(fs) : fs[i].blocking <=> Blocks(fs[i].severity)
           /\ sc02_result.status = "fail" <=> has_blocking
           /\ sc02_result.status \in {"pass", "fail", "error"}
           /\ sc02_result.status = "error" => tool.kind \in {"missing", "timeout"}


(***************************************************************************)
(* SpecCatalogue: scan_bundle on the archives of SpecContent with every    *)
(* controls argument of Spec, so that a report of level L2 is among the    *)
(* returned ones.  The actions are those of Spec.                          *)
(***************************************************************************)
InitCatalogue ==
    /\ pc = "start"
    /\ bundle \in ContentBundles
    /\ work_dir = "None"
    /\ controls \in ControlsArgs
    /\ cleanup = FALSE
    /\ tmp_dir_exists = FALSE
    /\ caller_dir_exists = FALSE
    /\ files = {}
    /\ manifest = Idle
    /\ report = Idle
    /\ controls_to_run = <<>>
    /\ next_i = 0
    /\ invoked = <<>>
    /\ exc = Idle
    /\ control_results = Idle /\ level = 0
    /\ findings = <<>>
    /\ sev_in = Idle /\ sev_out = Idle
    /\ AuxIdle

SpecCatalogue == InitCatalogue /\ [][Next]_vars

\* The controls required at level 3 or 4 whose run() only returns skip
UnimplementedControls ==
    {"AI-03", "SC-05", "CQ-04", "CD-04", "PR-03", "PR-05", "AI-04", "CQ-06", "PR-04"}

\* C29: every report returned by scan_bundle has a compliance level of at
\* most L2: each result of AI-03, SC-05, CQ-04, CD-04, PR-03, PR-05, AI-04,
\* CQ-06 and PR-04 in it is SKIP, these controls are required at level 3
\* or 4, and a level with a required control at SKIP is not the report's.
C29_LevelAtMostL2 ==
    pc = "returned" =>
        /\ compliance_level(report) <= 2
        /\ \A c \in UnimplementedControls :
              /\ c \in RequiredAt(3) \cup RequiredAt(4)
              /\ \A r \in StoredResults(c) : r.status = "skip"
        /\ \A l \in 1..4 :
              (\E c \in RequiredAt(l) : control_statuses(report)[c] = "skip")
                  => compliance_level(report) # l

\* C29 witness: a returned report of level L2 in which AI-03 was run and
\* skipped
C29_Witness ==
    /\ pc = "returned"
    /\ compliance_level(report) = 2
    /\ control_statuses(report)["AI-03"] = "skip"
    /\ control_statuses(report)["PR-04"] = "skip"
    /\ controls.is_none


(***************************************************************************)
(* SpecJob: job.py, run_job(): the environment, then inside try the S3     *)
(* client and the temporary directory, the download, the scan, the         *)
(* report, the upload and the "completed" callback; in except Exception    *)
(* the "failed" callback and sys.exit(1).                                  *)
(***************************************************************************)
REQUIRED_ENV ==
    <<"BUNDLE_S3_BUCKET", "BUNDLE_S3_KEY", "SCAN_ID", "CALLBACK_URL", "RESULT_S3_BUCKET",
      "RESULT_S3_PREFIX">>

RequiredNames == {REQUIRED_ENV[i] : i \in 1..Len(REQUIRED_ENV)}

ScanIds == {"scan-1", "scan-2"}

\* What urllib.request.urlopen(req, timeout=30) does with the POST: it is
\* answered with a 2xx status ("ok"); it does not reach the server and
\* URLError is raised ("unreachable"); it reaches the server, which answers
\* with a 4xx or 5xx status, and HTTPError is raised ("http_error"); it
\* reaches the server and the answer does not come in 30 s ("timeout")
PostOutcomes == {"ok", "unreachable", "http_error", "timeout"}

Delivered(o) == o # "unreachable"

\* The JSON body of a callback
CallbackBody(scan_id, status) == [scan_id |-> scan_id, status |-> status]

InitJob ==
    /\ pc = "job_start"
    /\ OldIdle
    /\ LoaderIdle /\ RaceIdle /\ ControlsIdle /\ ProcessIdle
    /\ \E set \in {RequiredNames} \cup {RequiredNames \ {n} : n \in RequiredNames},
          id \in ScanIds :
          job_env = [names |-> set, SCAN_ID |-> IF "SCAN_ID" \in set THEN id ELSE ""]
    /\ job_done = {}
    /\ job_report = Idle
    /\ callbacks = <<>>
    /\ job_exc = Idle
    /\ job_exit = Idle

jobRest == <<oldVars, loaderVars, raceVars, controlVars, processVars, job_env>>

\* lines 47-54 with _get_env: a required name that is unset or empty ends
\* the process by sys.exit(1), before the try block
ReadEnv ==
    /\ pc = "job_start"
    /\ IF job_env.names # RequiredNames
       THEN pc' = "job_exited" /\ job_exit' = Some(1)
       ELSE pc' = "job_client" /\ UNCHANGED job_exit
    /\ UNCHANGED <<job_done, job_report, callbacks, job_exc, jobRest>>

\* One statement group of the try block: it completes, or raises an
\* Exception that the except clause at line 117 catches
TryStep(at, step, next) ==
    /\ pc = at
    /\ \E raises \in BOOLEAN :
          IF raises
          THEN /\ pc' = "job_except"
               /\ job_exc' = Some(step)
               /\ UNCHANGED job_done
          ELSE /\ pc' = next
               /\ job_done' = job_done \cup {step}
               /\ UNCHANGED job_exc

\* lines 59-66: import boto3, boto3.client, the temporary directory
S3Client ==
    /\ TryStep("job_client", "client", "job_download")
    /\ UNCHANGED <<job_report, callbacks, job_exit, jobRest>>

\* line 69: s3.download_file(...)
DownloadBundle ==
    /\ TryStep("job_download", "download", "job_scan")
    /\ UNCHANGED <<job_report, callbacks, job_exit, jobRest>>

\* line 73: report = scan_bundle(local_path)
ScanBundle ==
    /\ TryStep("job_scan", "scan", "job_prepare")
    /\ IF pc' = "job_prepare"
       THEN job_report' \in {Some(r) : r \in RiskScore}
       ELSE UNCHANGED job_report
    /\ UNCHANGED <<callbacks, job_exit, jobRest>>

\* lines 76-81: report.to_dict(), json.dumps(...).encode(), the key
PrepareReport ==
    /\ TryStep("job_prepare", "prepare", "job_upload")
    /\ UNCHANGED <<job_report, callbacks, job_exit, jobRest>>

\* lines 84-89: s3.put_object(...)
UploadReport ==
    /\ TryStep("job_upload", "upload", "job_callback")
    /\ UNCHANGED <<job_report, callbacks, job_exit, jobRest>>

\* lines 92-113: the body with "status": "completed", the POST
CompletedCallback ==
    /\ pc = "job_callback"
    /\ \E o \in PostOutcomes :
          /\ callbacks' = IF Delivered(o)
                          THEN Append(callbacks, CallbackBody(job_env.SCAN_ID, "completed"))
                          ELSE callbacks
          /\ IF o = "ok"
             THEN /\ pc' = "job_leave_tmp"
                  /\ job_done' = job_done \cup {"callback"}
                  /\ UNCHANGED job_exc
             ELSE /\ pc' = "job_except"
                  /\ job_exc' = Some("callback")
                  /\ UNCHANGED job_done
    /\ UNCHANGED <<job_report, job_exit, jobRest>>

\* lines 64 and 115: the with block is left and TemporaryDirectory removes
\* the directory, which can raise (OSError); else run_job returns
LeaveTmp ==
    /\ pc = "job_leave_tmp"
    /\ \E raises \in BOOLEAN :
          IF raises
          THEN /\ pc' = "job_except"
               /\ job_exc' = Some("cleanup")
               /\ UNCHANGED job_exit
          ELSE /\ pc' = "job_exited"
               /\ job_exit' = Some(0)
               /\ UNCHANGED job_exc
    /\ UNCHANGED <<job_done, job_report, callbacks, jobRest>>

\* lines 117-144: the POST with "status": "failed", whose own exception is
\* logged, then sys.exit(1)
FailedCallback ==
    /\ pc = "job_except"
    /\ \E o \in PostOutcomes :
          callbacks' = IF Delivered(o)
                       THEN Append(callbacks, CallbackBody(job_env.SCAN_ID, "failed"))
                       ELSE callbacks
    /\ pc' = "job_exited"
    /\ job_exit' = Some(1)
    /\ UNCHANGED <<job_done, job_report, job_exc, jobRest>>

NextJob ==
    \/ ReadEnv \/ S3Client \/ DownloadBundle \/ ScanBundle \/ PrepareReport
    \/ UploadReport \/ CompletedCallback \/ LeaveTmp \/ FailedCallback

SpecJob == InitJob /\ [][NextJob]_vars

Sent(status) ==
    {b.scan_id : b \in {callbacks[i] : i \in {j \in 1..Len(callbacks) :
                                                 callbacks[j].status = status}}}

\* C30, first part: a "completed" callback is sent only after the scan
\* finished and the upload of the report succeeded.
C30_CompletedAfterUpload ==
    Sent("completed") # {} => {"scan", "upload"} \subseteq job_done

\* C30, third part: a run in which a step raised ends with exit code 1.
C30_RaiseExitsOne ==
    (pc = "job_exited" /\ job_exc # None) => job_exit = Some(1)

\* C30: in run_job a "completed" callback is sent only after the scan
\* finished and the upload succeeded, no run sends both a "completed" and
\* a "failed" callback for one scan_id, and a run in which a step raised
\* ends with exit code 1.
C30_CallbackProtocol ==
    /\ C30_CompletedAfterUpload
    /\ Sent("completed") \cap Sent("failed") = {}
    /\ C30_RaiseExitsOne

====
